---- MODULE Spec2Model ----
(***************************************************************************)
(* Model of the workout mini-language translator of garmin_plan_uploader:  *)
(* csv_parser.py (tokenizer, mini-grammar resolvers, tree builder, cell    *)
(* and plan parser) and domain_models.py (primitive converters, typed      *)
(* model with its construction-time validation).                          *)
(*                                                                         *)
(* Text is modelled as a sequence of one-character strings, so that the    *)
(* parsers work on characters as the Python code does.  Python's None is   *)
(* the value None below; an exception leaving a function is a record with  *)
(* kind "raise".  A float is an exact fraction [num, den].                 *)
(***************************************************************************)
EXTENDS Integers, Sequences, FiniteSets, TLC

(***************************************************************************)
(* Python text primitives                                                  *)
(***************************************************************************)

\* Python None where a text is expected: a one-element tuple that is no text.
None == <<"None">>

\* str.strip()/lstrip()/rstrip() remove these characters.
Whitespace == {" ", "\t", "\n", "\r"}

Digits == <<"0", "1", "2", "3", "4", "5", "6", "7", "8", "9">>

UpperCase ==
  <<"A", "B", "C", "D", "E", "F", "G", "H", "I", "J", "K", "L", "M",
    "N", "O", "P", "Q", "R", "S", "T", "U", "V", "W", "X", "Y", "Z">>

LowerCase ==
  <<"a", "b", "c", "d", "e", "f", "g", "h", "i", "j", "k", "l", "m",
    "n", "o", "p", "q", "r", "s", "t", "u", "v", "w", "x", "y", "z">>

IsDigit(c) == \E d \in 1..10 : Digits[d] = c

DigitVal(c) == (CHOOSE d \in 1..10 : Digits[d] = c) - 1

AllDigits(s) == \A k \in 1..Len(s) : IsDigit(s[k])

\* int() of a non-empty run of ASCII digits.
RECURSIVE IntOfDigits(_)
IntOfDigits(s) ==
  IF s = <<>> THEN 0
  ELSE 10 * IntOfDigits(SubSeq(s, 1, Len(s) - 1)) + DigitVal(s[Len(s)])

LowerChar(c) ==
  IF \E k \in 1..26 : UpperCase[k] = c
  THEN LowerCase[CHOOSE k \in 1..26 : UpperCase[k] = c]
  ELSE c

\* str.lower()
lower(s) == [k \in 1..Len(s) |-> LowerChar(s[k])]

RECURSIVE lstrip(_)
lstrip(s) ==
  IF s # <<>> /\ s[1] \in Whitespace THEN lstrip(Tail(s)) ELSE s

RECURSIVE rstrip(_)
rstrip(s) ==
  IF s # <<>> /\ s[Len(s)] \in Whitespace
  THEN rstrip(SubSeq(s, 1, Len(s) - 1))
  ELSE s

strip(s) == rstrip(lstrip(s))

\* c in s
Contains(s, c) == \E k \in 1..Len(s) : s[k] = c

\* s.find(c) + 1 for a character that occurs in s
FirstIndex(s, c) == CHOOSE k \in 1..Len(s) : s[k] = c /\ \A j \in 1..(k - 1) : s[j] # c

\* s.split(c, 1) for a character that occurs in s: the two parts
SplitOnce(s, c) ==
  LET k == FirstIndex(s, c)
  IN  <<SubSeq(s, 1, k - 1), SubSeq(s, k + 1, Len(s))>>

\* s.split(c): all the parts
RECURSIVE split(_, _)
split(s, c) ==
  IF Contains(s, c)
  THEN <<SplitOnce(s, c)[1]>> \o split(SplitOnce(s, c)[2], c)
  ELSE <<s>>

startswith(s, p) == Len(s) >= Len(p) /\ SubSeq(s, 1, Len(p)) = p

endswith(s, p) == Len(s) >= Len(p) /\ SubSeq(s, Len(s) - Len(p) + 1, Len(s)) = p

\* s[1:-1]
DropEnds(s) == SubSeq(s, 2, Len(s) - 1)

(***************************************************************************)
(* Values: exceptions, fractions                                           *)
(***************************************************************************)

\* An exception that leaves the function that was called.
Raise(exc) == [type |-> "raise", exc |-> exc]

IsRaise(x) == x.type = "raise"

\* A function's result None where a record is expected.
NoneValue == [type |-> "none"]

\* A float, kept exact: num / den with den > 0 (in a fixed small unit).
Frac(n, d) == [num |-> n, den |-> d]

FracLess(a, b) == a.num * b.den < b.num * a.den

FracPositive(a) == a.num > 0

RECURSIVE Pow10(_)
Pow10(n) == IF n = 0 THEN 1 ELSE 10 * Pow10(n - 1)

(***************************************************************************)
(* domain_models.py: step types and the typed model                        *)
(***************************************************************************)

WARMUP == 1
COOLDOWN == 2
INTERVAL == 3
RECOVER == 4
REST == 5
REPEAT == 6

\* EndConditionType
LAP_BUTTON == 1
TIME == 2
DISTANCE == 3

\* TargetType
NO_TARGET == 1
HEART_RATE_ZONE == 4
PACE == 6

\* SportType
RUNNING == 1
CYCLING == 2
OTHER_SPORT == 3
SWIMMING == 4

Txt_warmup == <<"w", "a", "r", "m", "u", "p">>
Txt_cooldown == <<"c", "o", "o", "l", "d", "o", "w", "n">>
Txt_run == <<"r", "u", "n">>
Txt_interval == <<"i", "n", "t", "e", "r", "v", "a", "l">>
Txt_go == <<"g", "o">>
Txt_other == <<"o", "t", "h", "e", "r">>
Txt_stair == <<"s", "t", "a", "i", "r">>
Txt_recover == <<"r", "e", "c", "o", "v", "e", "r">>
Txt_recovery == <<"r", "e", "c", "o", "v", "e", "r", "y">>
Txt_rest == <<"r", "e", "s", "t">>
Txt_repeat == <<"r", "e", "p", "e", "a", "t">>
Txt_note == <<"n", "o", "t", "e">>
Txt_running == <<"r", "u", "n", "n", "i", "n", "g">>
Txt_lap_button == <<"l", "a", "p", "-", "b", "u", "t", "t", "o", "n">>
Txt_Workout == <<"W", "o", "r", "k", "o", "u", "t">>
Txt_mpk == <<"m", "p", "k">>
Txt_mpm == <<"m", "p", "m">>

\* The keyword table; 0 stands for the table's None entry of "note".
STEP_TYPE_MAP ==
  { <<Txt_warmup, WARMUP>>, <<Txt_cooldown, COOLDOWN>>, <<Txt_run, INTERVAL>>,
    <<Txt_interval, INTERVAL>>, <<Txt_go, INTERVAL>>, <<Txt_other, INTERVAL>>,
    <<Txt_stair, INTERVAL>>, <<Txt_recover, RECOVER>>, <<Txt_recovery, RECOVER>>,
    <<Txt_rest, REST>>, <<Txt_repeat, REPEAT>>, <<Txt_note, 0>> }

InStepTypeMap(keyword) == \E e \in STEP_TYPE_MAP : e[1] = keyword

StepTypeOf(keyword) == (CHOOSE e \in STEP_TYPE_MAP : e[1] = keyword)[2]

CROSS_TRAINING_KEYWORDS == {Txt_other, Txt_stair}

NoTarget == [type |-> "no_target"]

HeartRateZoneTarget(zone) ==
  IF zone >= 1 /\ zone <= 5
  THEN [type |-> "hr_zone", zone |-> zone]
  ELSE Raise("ValidationError")

\* Field(gt=0) on both speeds, then validate_speed_range.
\* PaceTarget keeping the two speeds as supplied.
PaceTarget_NoSwap(min_speed_mps, max_speed_mps) ==
  IF ~(FracPositive(min_speed_mps) /\ FracPositive(max_speed_mps))
  THEN Raise("ValidationError")
  ELSE [type |-> "pace", min_speed_mps |-> min_speed_mps,
        max_speed_mps |-> max_speed_mps]

PaceTarget(min_speed_mps, max_speed_mps) ==
  IF ~(FracPositive(min_speed_mps) /\ FracPositive(max_speed_mps))
  THEN Raise("ValidationError")
  ELSE IF FracLess(max_speed_mps, min_speed_mps)
       THEN [type |-> "pace", min_speed_mps |-> max_speed_mps,
             max_speed_mps |-> min_speed_mps]
       ELSE [type |-> "pace", min_speed_mps |-> min_speed_mps,
             max_speed_mps |-> max_speed_mps]

TimeEndCondition(duration_seconds) ==
  IF duration_seconds > 0
  THEN [type |-> "time", duration_seconds |-> duration_seconds]
  ELSE Raise("ValidationError")

DistanceEndCondition(distance_meters) ==
  IF FracPositive(distance_meters)
  THEN [type |-> "distance", distance_meters |-> distance_meters]
  ELSE Raise("ValidationError")

LapButtonEndCondition == [type |-> "lap_button"]

ExecutableStep(step_type, keyword, end_condition, target, description, cross) ==
  [type |-> "executable", step_type |-> step_type,
   step_type_keyword |-> strip(lower(keyword)),
   end_condition |-> end_condition, target |-> target,
   description |-> description, is_cross_training |-> cross]

\* RepeatStep without the constraint on iterations.
RepeatStep_AnyCount(iterations, steps) ==
  IF Len(steps) >= 1
  THEN [type |-> "repeat", step_type |-> REPEAT, iterations |-> iterations,
        steps |-> steps]
  ELSE Raise("ValidationError")

RepeatStep(iterations, steps) ==
  IF iterations >= 1 /\ Len(steps) >= 1
  THEN [type |-> "repeat", step_type |-> REPEAT, iterations |-> iterations,
        steps |-> steps]
  ELSE Raise("ValidationError")

Workout(name, steps) ==
  IF Len(name) >= 1 /\ Len(name) <= 255 /\ Len(steps) >= 1
  THEN [type |-> "workout", name |-> name, sport_type |-> RUNNING,
        steps |-> steps, description |-> None]
  ELSE Raise("ValidationError")

(***************************************************************************)
(* domain_models.py: rendering.  A dict is a record; a key whose value is  *)
(* None holds NoneValue, a description that is None holds None.            *)
(***************************************************************************)

\* target.to_garmin_dict() of the three target classes.
Target_to_garmin_dict(target) ==
  CASE target.type = "no_target" ->
         [targetType |-> [workoutTargetTypeId |-> NO_TARGET,
                          workoutTargetTypeKey |-> "no.target"]]
    [] target.type = "hr_zone" ->
         [targetType |-> [workoutTargetTypeId |-> HEART_RATE_ZONE,
                          workoutTargetTypeKey |-> "heart.rate.zone"],
          zoneNumber |-> target.zone]
    [] target.type = "pace" ->
         [targetType |-> [workoutTargetTypeId |-> PACE,
                          workoutTargetTypeKey |-> "pace.zone"],
          targetValueOne |-> target.min_speed_mps,
          targetValueTwo |-> target.max_speed_mps]

\* end_condition.to_garmin_dict() of the three end condition classes.
EndCondition_to_garmin_dict(end_condition) ==
  CASE end_condition.type = "time" ->
         [endCondition |-> [conditionTypeKey |-> "time",
                            conditionTypeId |-> TIME],
          endConditionValue |-> end_condition.duration_seconds,
          preferredEndConditionUnit |-> [unitKey |-> "second"]]
    [] end_condition.type = "distance" ->
         [endCondition |-> [conditionTypeKey |-> "distance",
                            conditionTypeId |-> DISTANCE],
          endConditionValue |-> end_condition.distance_meters,
          preferredEndConditionUnit |-> [unitKey |-> "meter"]]
    [] end_condition.type = "lap_button" ->
         [endCondition |-> [conditionTypeKey |-> "lap.button",
                            conditionTypeId |-> LAP_BUTTON],
          endConditionValue |-> NoneValue]

\* step_type_keys.get(self.step_type, "interval")
step_type_keys(step_type) ==
  CASE step_type = WARMUP -> "warmup"
    [] step_type = COOLDOWN -> "cooldown"
    [] step_type = INTERVAL -> "interval"
    [] step_type = RECOVER -> "recovery"
    [] step_type = REST -> "rest"
    [] OTHER -> "interval"

Txt_CROSS_TRAINING ==
  <<"[", "C", "R", "O", "S", "S", " ", "T", "R", "A", "I", "N", "I", "N", "G", "]">>

\* self.description or ""
DescriptionOrEmpty(description) ==
  IF description = None THEN <<>> ELSE description

\* The description with the cross-training prefix after the note text.
Prefixed_After(description, is_cross_training) ==
  IF is_cross_training
  THEN IF description # <<>>
       THEN description \o <<" ">> \o Txt_CROSS_TRAINING
       ELSE Txt_CROSS_TRAINING
  ELSE description

\* The description with the cross-training prefix if needed.
Prefixed(description, is_cross_training) ==
  IF is_cross_training
  THEN IF description # <<>>
       THEN Txt_CROSS_TRAINING \o <<" ">> \o description
       ELSE Txt_CROSS_TRAINING
  ELSE description

\* description if description else None
TextOrNone(description) == IF description # <<>> THEN description ELSE None

\* ExecutableStep.to_garmin_dict(step_order); update() adds the keys of the
\* end condition and then those of the target.
ExecutableStep_to_garmin_dict(step, step_order) ==
  Target_to_garmin_dict(step.target)
    @@ EndCondition_to_garmin_dict(step.end_condition)
    @@ [type |-> "ExecutableStepDTO",
        stepId |-> NoneValue,
        stepOrder |-> step_order,
        childStepId |-> NoneValue,
        description |->
          TextOrNone(Prefixed(DescriptionOrEmpty(step.description),
                              step.is_cross_training)),
        stepType |-> [stepTypeId |-> step.step_type,
                      stepTypeKey |-> step_type_keys(step.step_type)]]

RECURSIVE RepeatStep_to_garmin_dict_Parent(_, _)
RECURSIVE RepeatStep_to_garmin_dict(_, _)

\* step.to_garmin_dict(step_order) of either class of step.
WorkoutStep_to_garmin_dict(step, step_order) ==
  IF step.type = "executable"
  THEN ExecutableStep_to_garmin_dict(step, step_order)
  ELSE RepeatStep_to_garmin_dict(step, step_order)

\* RepeatStep.to_garmin_dict with the children numbered on from the order
\* of the group.
RepeatStep_to_garmin_dict_Parent(step, step_order) ==
  [type |-> "RepeatGroupDTO",
   stepId |-> NoneValue,
   stepOrder |-> step_order,
   childStepId |-> NoneValue,
   numberOfIterations |-> step.iterations,
   stepType |-> [stepTypeId |-> REPEAT, stepTypeKey |-> "repeat"],
   workoutSteps |->
     [i \in 1..Len(step.steps) |->
        WorkoutStep_to_garmin_dict(step.steps[i], step_order + i)]]

\* RepeatStep.to_garmin_dict(step_order)
RepeatStep_to_garmin_dict(step, step_order) ==
  [type |-> "RepeatGroupDTO",
   stepId |-> NoneValue,
   stepOrder |-> step_order,
   childStepId |-> NoneValue,
   numberOfIterations |-> step.iterations,
   stepType |-> [stepTypeId |-> REPEAT, stepTypeKey |-> "repeat"],
   workoutSteps |->
     [i \in 1..Len(step.steps) |->
        WorkoutStep_to_garmin_dict(step.steps[i], i - 1)]]

\* sport_type_keys.get(self.sport_type, "running")
sport_type_keys(sport_type) ==
  CASE sport_type = RUNNING -> "running"
    [] sport_type = CYCLING -> "cycling"
    [] sport_type = OTHER_SPORT -> "other"
    [] sport_type = SWIMMING -> "swimming"
    [] OTHER -> "running"

SportTypeDict(sport_type) ==
  [sportTypeId |-> sport_type, sportTypeKey |-> sport_type_keys(sport_type)]

\* Workout.to_garmin_dict()
Workout_to_garmin_dict(self) ==
  [sportType |-> SportTypeDict(self.sport_type),
   workoutName |-> self.name,
   description |-> self.description,
   workoutSegments |->
     << [segmentOrder |-> 1,
         sportType |-> SportTypeDict(self.sport_type),
         workoutSteps |->
           [i \in 1..Len(self.steps) |->
              WorkoutStep_to_garmin_dict(self.steps[i], i - 1)]] >>]

(***************************************************************************)
(* domain_models.py: primitive converters                                  *)
(***************************************************************************)

\* ^(\d{1,3}):(\d{2})$ ; maxMin is 3 for durations and 2 for pace times.
MatchTime(s, maxMin) ==
  \E k \in 1..maxMin :
    /\ Len(s) = k + 3
    /\ AllDigits(SubSeq(s, 1, k))
    /\ s[k + 1] = ":"
    /\ AllDigits(SubSeq(s, k + 2, k + 3))

TimeMinutes(s) == IntOfDigits(SubSeq(s, 1, Len(s) - 3))

TimeSeconds(s) == IntOfDigits(SubSeq(s, Len(s) - 1, Len(s)))

\* DurationOf reading the minutes as hundreds of seconds.
DurationOf_Hundreds(minutes, seconds) ==
  IF seconds >= 60
  THEN Raise("ValueError")
  ELSE [type |-> "int", value |-> minutes * 100 + seconds]

\* DurationOf without the check of the seconds field.
DurationOf_AnySeconds(minutes, seconds) ==
  [type |-> "int", value |-> minutes * 60 + seconds]

\* The result for the matched groups: seconds >= 60 is an error.
DurationOf(minutes, seconds) ==
  IF seconds >= 60
  THEN Raise("ValueError")
  ELSE [type |-> "int", value |-> minutes * 60 + seconds]

\* The duration of the stripped text.
MatchedDuration(s) ==
  IF ~MatchTime(s, 3)
  THEN Raise("ValueError")
  ELSE DurationOf(TimeMinutes(s), TimeSeconds(s))

parse_duration_to_seconds(duration_str) ==
  IF lower(duration_str) = Txt_lap_button
  THEN NoneValue
  ELSE MatchedDuration(strip(duration_str))

\* Unit texts and metres per unit in ten-thousandths.
DistanceUnits ==
  { <<<<"k", "m">>, 10000000>>, <<<<"m", "i">>, 16093440>>, <<<<"m">>, 10000>>,
    <<<<"y", "d", "s">>, 9144>>, <<<<"y", "d">>, 9144>>,
    <<<<"m", "e", "t", "e", "r", "s">>, 10000>>,
    <<<<"m", "i", "l", "e", "s">>, 16093440>>,
    <<<<"k", "i", "l", "o", "m", "e", "t", "e", "r", "s">>, 10000000>> }

IsDistanceUnit(t) == \E u \in DistanceUnits : u[1] = t

UnitFactor(t) == (CHOOSE u \in DistanceUnits : u[1] = t)[2]

\* \d+(?:\.\d+)?
MatchNumber(t) ==
  \/ t # <<>> /\ AllDigits(t)
  \/ /\ Contains(t, ".")
     /\ SplitOnce(t, ".")[1] # <<>>
     /\ AllDigits(SplitOnce(t, ".")[1])
     /\ SplitOnce(t, ".")[2] # <<>>
     /\ AllDigits(SplitOnce(t, ".")[2])

\* The length of the longest prefix of s made of digits and '.'.
RECURSIVE NumberPrefixLen(_)
NumberPrefixLen(s) ==
  IF s # <<>> /\ (IsDigit(s[1]) \/ s[1] = ".")
  THEN 1 + NumberPrefixLen(Tail(s))
  ELSE 0

\* A number text, \s*, a unit text.
MatchNumberUnit(number, rest) ==
  MatchNumber(number) /\ IsDistanceUnit(lstrip(rest))

\* ^(\d+(?:\.\d+)?)\s*(km|mi|m|yds|yd|meters|miles|kilometers)$
MatchDistanceAt(s, n) ==
  MatchNumberUnit(SubSeq(s, 1, n), SubSeq(s, n + 1, Len(s)))

MatchDistance(s) == MatchDistanceAt(s, NumberPrefixLen(s))

\* float(number) * conversions[unit]
NumberTimes(number, factor) ==
  IF Contains(number, ".")
  THEN Frac(IntOfDigits(SplitOnce(number, ".")[1] \o SplitOnce(number, ".")[2])
              * factor,
            Pow10(Len(SplitOnce(number, ".")[2])) * 10000)
  ELSE Frac(IntOfDigits(number) * factor, 10000)

DistanceValueAt(s, n) ==
  NumberTimes(SubSeq(s, 1, n), UnitFactor(lstrip(SubSeq(s, n + 1, Len(s)))))

DistanceValue(s) == DistanceValueAt(s, NumberPrefixLen(s))

\* The distance of the stripped, lowercased text.
MatchedDistance(s) ==
  IF MatchDistance(s)
  THEN [type |-> "float", value |-> DistanceValue(s)]
  ELSE Raise("ValueError")

parse_distance_to_meters(distance_str) ==
  MatchedDistance(lower(strip(distance_str)))

\* ^(\d{1,2}):(\d{2})\s*-\s*(\d{1,2}):(\d{2})$
MatchPaceRange(s) ==
  /\ Contains(s, "-")
  /\ MatchTime(rstrip(SplitOnce(s, "-")[1]), 2)
  /\ MatchTime(lstrip(SplitOnce(s, "-")[2]), 2)

\* minutes * 60 + seconds of a matched pace time
PaceSeconds(t) == TimeMinutes(t) * 60 + TimeSeconds(t)

\* The two speeds; a pace of 0 seconds gives the speed 0.0.
SpeedPair(slow_total_sec, fast_total_sec, distance_per_unit) ==
  [type |-> "speeds",
   min_speed_mps |-> IF slow_total_sec > 0
                     THEN Frac(distance_per_unit, slow_total_sec)
                     ELSE Frac(0, 1),
   max_speed_mps |-> IF fast_total_sec > 0
                     THEN Frac(distance_per_unit, fast_total_sec)
                     ELSE Frac(0, 1)]

\* The speeds of the pace text without its suffix; distance_per_unit is
\* the metres per pace unit in thousandths.
PaceSpeeds(body, is_per_mile) ==
  IF ~MatchPaceRange(body)
  THEN Raise("ValueError")
  ELSE SpeedPair(PaceSeconds(rstrip(SplitOnce(body, "-")[1])),
                 PaceSeconds(lstrip(SplitOnce(body, "-")[2])),
                 IF is_per_mile THEN 1609344 ELSE 1000000)

\* The stripped, lowercased pace text without its unit suffix.
PaceBody(low) ==
  IF endswith(low, Txt_mpm) \/ endswith(low, Txt_mpk)
  THEN strip(SubSeq(low, 1, Len(low) - 3))
  ELSE low

LoweredPace(low) == PaceSpeeds(PaceBody(low), endswith(low, Txt_mpm))

parse_pace_to_meters_per_second(pace_str) == LoweredPace(lower(strip(pace_str)))

\* ^z([1-5])$
MatchZone(s) ==
  Len(s) = 2 /\ s[1] = "z" /\ IsDigit(s[2]) /\ DigitVal(s[2]) \in 1..5

LoweredZone(s) ==
  IF MatchZone(s)
  THEN [type |-> "int", value |-> DigitVal(s[2])]
  ELSE Raise("ValueError")

parse_hr_zone(zone_str) == LoweredZone(lower(strip(zone_str)))

(***************************************************************************)
(* csv_parser.py: line tokenizer                                           *)
(***************************************************************************)

get_indent_level(line) == (Len(line) - Len(lstrip(line))) \div 2

\* The line without its leading whitespace and dash.
Content(stripped) ==
  IF startswith(stripped, <<"-", " ">>)
  THEN SubSeq(stripped, 3, Len(stripped))
  ELSE IF startswith(stripped, <<"-">>)
       THEN SubSeq(stripped, 2, Len(stripped))
       ELSE stripped

\* The ParsedLine for the keyword and the text after the first ':'.
KeywordLine(indent_level, keyword, rest) ==
  [type |-> "line",
   indent_level |-> indent_level,
   keyword |-> keyword,
   value |-> IF Contains(rest, ";") THEN strip(SplitOnce(rest, ";")[1]) ELSE rest,
   notes |-> IF Contains(rest, ";") THEN strip(SplitOnce(rest, ";")[2]) ELSE None]

ContentLine(indent_level, content) ==
  IF ~Contains(content, ":")
  THEN NoneValue
  ELSE KeywordLine(indent_level,
                   lower(strip(SplitOnce(content, ":")[1])),
                   strip(SplitOnce(content, ":")[2]))

\* parse_line after line = line.rstrip()
StrippedLine(line) ==
  IF strip(line) = <<>>
  THEN NoneValue
  ELSE ContentLine(get_indent_level(line), Content(lstrip(line)))

\* The ParsedLine of a raw line, or NoneValue.
parse_line(raw) == StrippedLine(rstrip(raw))

(***************************************************************************)
(* csv_parser.py: mini-grammar resolvers                                   *)
(***************************************************************************)

\* ^\d{1,2}:\d{2}\s*-\s*\d{1,2}:\d{2}(mpk|mpm)?$ on the lowercased text
\* (re.IGNORECASE)
MatchLoweredPaceTarget(low) ==
  \/ MatchPaceRange(low)
  \/ /\ endswith(low, Txt_mpk) \/ endswith(low, Txt_mpm)
     /\ MatchPaceRange(SubSeq(low, 1, Len(low) - 3))

MatchPaceTarget(s) == MatchLoweredPaceTarget(lower(s))

ZoneTarget(zone) ==
  IF IsRaise(zone) THEN zone ELSE HeartRateZoneTarget(zone.value)

SpeedsTarget(speeds) ==
  IF IsRaise(speeds)
  THEN speeds
  ELSE PaceTarget(speeds.min_speed_mps, speeds.max_speed_mps)

\* parse_target after target_str = target_str.strip()
StrippedTarget(t) ==
  IF MatchZone(lower(t))
  THEN ZoneTarget(parse_hr_zone(t))
  ELSE IF MatchPaceTarget(t)
       THEN SpeedsTarget(parse_pace_to_meters_per_second(t))
       ELSE NoTarget

parse_target(target_str) == StrippedTarget(strip(target_str))

TimeCondition(seconds) ==
  IF IsRaise(seconds)
  THEN seconds
  ELSE IF seconds.type = "none"
       THEN LapButtonEndCondition
       ELSE TimeEndCondition(seconds.value)

DistanceCondition(meters) ==
  IF IsRaise(meters) THEN meters ELSE DistanceEndCondition(meters.value)

\* The end condition built from the text left of the first '@'.
EndConditionOf(value_str) ==
  IF lower(value_str) = Txt_lap_button
  THEN LapButtonEndCondition
  ELSE IF MatchTime(value_str, 3)
       THEN TimeCondition(parse_duration_to_seconds(value_str))
       ELSE IF MatchDistance(lower(value_str))
            THEN DistanceCondition(parse_distance_to_meters(value_str))
            ELSE LapButtonEndCondition

\* The returned pair; the target is parsed first, so its exception wins.
PairOf(end_condition, target) ==
  IF IsRaise(target)
  THEN target
  ELSE IF IsRaise(end_condition)
       THEN end_condition
       ELSE [type |-> "pair", end_condition |-> end_condition, target |-> target]

\* parse_end_condition_and_target after value_str = value_str.strip()
StrippedValue(v) ==
  IF Contains(v, "@")
  THEN PairOf(EndConditionOf(strip(SplitOnce(v, "@")[1])),
              parse_target(SplitOnce(v, "@")[2]))
  ELSE PairOf(EndConditionOf(v), NoTarget)

\* The pair (EndCondition, Target), or the exception that leaves the function.
parse_end_condition_and_target(value_str) == StrippedValue(strip(value_str))

\* The ExecutableStep of a step line whose value parsed to the pair r.
StepOf(parsed_line, r) ==
  IF IsRaise(r)
  THEN r
  ELSE ExecutableStep(StepTypeOf(parsed_line.keyword), parsed_line.keyword,
                      r.end_condition, r.target, parsed_line.notes,
                      parsed_line.keyword \in CROSS_TRAINING_KEYWORDS)

\* parse_step with the table looked up before the keyword is known to be
\* in it: an unknown keyword is a KeyError.
parse_step_KeyError(parsed_line) ==
  IF ~InStepTypeMap(parsed_line.keyword)
  THEN Raise("KeyError")
  ELSE IF StepTypeOf(parsed_line.keyword) = 0
       THEN NoneValue
       ELSE IF StepTypeOf(parsed_line.keyword) = REPEAT
            THEN NoneValue
            ELSE StepOf(parsed_line,
                        parse_end_condition_and_target(parsed_line.value))

\* An ExecutableStep, NoneValue, or the exception that leaves the function.
parse_step(parsed_line) ==
  IF ~InStepTypeMap(parsed_line.keyword)
  THEN NoneValue
  ELSE IF StepTypeOf(parsed_line.keyword) = 0
       THEN NoneValue
       ELSE IF StepTypeOf(parsed_line.keyword) = REPEAT
            THEN NoneValue
            ELSE StepOf(parsed_line,
                        parse_end_condition_and_target(parsed_line.value))

(***************************************************************************)
(* csv_parser.py: tree builder.  The recursion of _build_steps_recursive   *)
(* is an explicit stack of frames, one per running call; a builder state   *)
(* is [i, stack, status, exc].  One pass of the while loop is one step.    *)
(***************************************************************************)

\* The frame of a call _build_steps_recursive(parsed_lines, start_index,
\* expected_indent); iterations is the count of the repeat line that made
\* the call (0 for the outermost call).
Frame(start_index, expected_indent, iterations) ==
  [start_index |-> start_index, expected_indent |-> expected_indent,
   iterations |-> iterations, steps |-> <<>>]

\* The builder state on entry of the outermost call.
BuildStart(start_index, expected_indent) ==
  [i |-> start_index, stack |-> <<Frame(start_index, expected_indent, 0)>>,
   status |-> "running", exc |-> ""]

Top(b) == b.stack[Len(b.stack)]

\* parsed_lines[i] with the code's 0-based index.
LineAt(parsed_lines, i) == parsed_lines[i + 1]

\* b with the steps of the running call replaced.
WithSteps(b, steps) ==
  [b EXCEPT !.stack[Len(b.stack)].steps = steps]

\* An optional sign, then ASCII digits.
IsSignedDigits(u) ==
  /\ u # <<>>
  /\ IF u[1] \in {"+", "-"}
     THEN Len(u) > 1 /\ AllDigits(Tail(u))
     ELSE AllDigits(u)

\* Whether int(line.value.strip()) returns.
IsIntText(t) == IsSignedDigits(strip(t))

SignedDigitsValue(u) ==
  IF u[1] = "-" THEN 0 - IntOfDigits(Tail(u))
  ELSE IF u[1] = "+" THEN IntOfDigits(Tail(u))
  ELSE IntOfDigits(u)

\* int(line.value.strip())
IntOfText(t) == SignedDigitsValue(strip(t))

\* The stripped note text with one pair of surrounding quotes removed.
Unquote(note_text) ==
  IF \/ startswith(note_text, <<"\"">>) /\ endswith(note_text, <<"\"">>)
     \/ startswith(note_text, <<"'">>) /\ endswith(note_text, <<"'">>)
  THEN DropEnds(note_text)
  ELSE note_text

NoteText(value) == Unquote(strip(value))

\* WithNote with the note always replacing the description.
WithNote_Overwrite(step, note_text) == [step EXCEPT !.description = note_text]

\* WithNote with the note put before the description already there.
WithNote_Before(step, note_text) ==
  IF step.description # None /\ step.description # <<>>
  THEN [step EXCEPT !.description = note_text \o <<"\n">> \o step.description]
  ELSE [step EXCEPT !.description = note_text]

\* if step.description: ... else: ...
WithNote(step, note_text) ==
  IF step.description # None /\ step.description # <<>>
  THEN [step EXCEPT !.description = step.description \o <<"\n">> \o note_text]
  ELSE [step EXCEPT !.description = note_text]

\* AttachTo with the note of a repeat group given to its first nested step.
AttachTo_First(steps, last_step, note_text) ==
  IF last_step.type = "executable"
  THEN [steps EXCEPT ![Len(steps)] = WithNote(last_step, note_text)]
  ELSE IF last_step.steps # <<>> /\ last_step.steps[1].type = "executable"
       THEN [steps EXCEPT ![Len(steps)].steps[1] =
               WithNote(last_step.steps[1], note_text)]
       ELSE steps

\* The note goes to last_step, or to the last nested step of a RepeatStep.
AttachTo(steps, last_step, note_text) ==
  IF last_step.type = "executable"
  THEN [steps EXCEPT ![Len(steps)] = WithNote(last_step, note_text)]
  ELSE IF last_step.steps # <<>>
          /\ last_step.steps[Len(last_step.steps)].type = "executable"
       THEN [steps EXCEPT ![Len(steps)].steps[Len(last_step.steps)] =
               WithNote(last_step.steps[Len(last_step.steps)], note_text)]
       ELSE steps

\* The note branch applied to the list of steps built so far by the call.
AttachNote(steps, note_text) ==
  IF steps = <<>> THEN steps
  ELSE AttachTo(steps, steps[Len(steps)], note_text)

\* LineBranch without the test for a higher indent: a line indented deeper
\* than expected is handled like a line of the group.
LineBranch_NoOverIndent(line, expected_indent) ==
  IF line.indent_level < expected_indent THEN "return"
  ELSE IF line.keyword = Txt_note THEN "note"
  ELSE IF line.keyword = Txt_repeat
       THEN IF IsIntText(line.value) THEN "repeat" ELSE "bad_repeat"
       ELSE "step"

\* LineBranch without the test for a lower indent: a call never hands a
\* line back to its caller.
LineBranch_NoDedent(line, expected_indent) ==
  IF line.indent_level > expected_indent THEN "over_indent"
  ELSE IF line.keyword = Txt_note THEN "note"
  ELSE IF line.keyword = Txt_repeat
       THEN IF IsIntText(line.value) THEN "repeat" ELSE "bad_repeat"
       ELSE "step"

\* The branch the loop body takes for the line it reads.
LineBranch(line, expected_indent) ==
  IF line.indent_level < expected_indent THEN "return"
  ELSE IF line.indent_level > expected_indent THEN "over_indent"
  ELSE IF line.keyword = Txt_note THEN "note"
  ELSE IF line.keyword = Txt_repeat
       THEN IF IsIntText(line.value) THEN "repeat" ELSE "bad_repeat"
       ELSE "step"

\* Which branch of the loop the running call takes in state b.
Branch(parsed_lines, b) ==
  IF b.status # "running" THEN "stopped"
  ELSE IF ~(b.i < Len(parsed_lines)) THEN "return"
  ELSE LineBranch(LineAt(parsed_lines, b.i), Top(b).expected_indent)

\* SkipLine without the increment: the loop continues at the same line.
SkipLine_Stay(b) == b

\* i += 1; continue
SkipLine(b) == [b EXCEPT !.i = b.i + 1]

\* NotePass with the note of a call that has built no step given to the
\* last step of its caller.
NotePass_Caller(parsed_lines, b) ==
  IF Top(b).steps = <<>> /\ Len(b.stack) > 1
  THEN SkipLine([b EXCEPT !.stack[Len(b.stack) - 1].steps =
                   AttachNote(@, NoteText(LineAt(parsed_lines, b.i).value))])
  ELSE SkipLine(WithSteps(b, AttachNote(Top(b).steps,
                                  NoteText(LineAt(parsed_lines, b.i).value))))

\* The note branch.
NotePass(parsed_lines, b) ==
  SkipLine(WithSteps(b, AttachNote(Top(b).steps,
                                  NoteText(LineAt(parsed_lines, b.i).value))))

\* The repeat branch up to the recursive call.
RepeatPass(parsed_lines, b) ==
  [b EXCEPT !.i = b.i + 1,
            !.stack = Append(b.stack,
                        Frame(b.i + 1, Top(b).expected_indent + 1,
                              IntOfText(LineAt(parsed_lines, b.i).value)))]

\* AddStep with the step put before the steps already built by the call.
AddStep_Front(b, step) ==
  IF IsRaise(step)
  THEN [b EXCEPT !.status = "raised", !.exc = step.exc]
  ELSE IF step.type = "none"
       THEN SkipLine(b)
       ELSE SkipLine(WithSteps(b, <<step>> \o Top(b).steps))

\* if step: steps.append(step); i += 1 -- or the exception of parse_step
AddStep(b, step) ==
  IF IsRaise(step)
  THEN [b EXCEPT !.status = "raised", !.exc = step.exc]
  ELSE IF step.type = "none"
       THEN SkipLine(b)
       ELSE SkipLine(WithSteps(b, Append(Top(b).steps, step)))

\* The else branch: a regular executable step.
StepPass(parsed_lines, b) == AddStep(b, parse_step(LineAt(parsed_lines, b.i)))

\* The builder state with the running call removed from the stack.
Caller(b) == [b EXCEPT !.stack = SubSeq(b.stack, 1, Len(b.stack) - 1)]

\* steps.append(repeat_step) in the caller -- or the exception of RepeatStep
AddRepeat(b, caller, repeat_step) ==
  IF IsRaise(repeat_step)
  THEN [b EXCEPT !.status = "raised", !.exc = repeat_step.exc]
  ELSE WithSteps(caller, Append(Top(caller).steps, repeat_step))

\* Resume without the test "if nested_steps": the RepeatStep is constructed
\* whatever the recursive call returned.
Resume_KeepEmpty(b, caller, iterations, nested_steps) ==
  AddRepeat(b, caller, RepeatStep(iterations, nested_steps))

\* Resume with the line that stopped the recursive call consumed by it.
Resume_SkipStop(b, caller, iterations, nested_steps) ==
  IF nested_steps = <<>>
  THEN SkipLine(caller)
  ELSE AddRepeat(b, SkipLine(caller), RepeatStep(iterations, nested_steps))

\* The caller after the recursive call: if nested_steps: ...; i = next_i
Resume(b, caller, iterations, nested_steps) ==
  IF nested_steps = <<>>
  THEN caller
  ELSE AddRepeat(b, caller, RepeatStep(iterations, nested_steps))

\* The running call returns (steps, i); the caller, if any, goes on after
\* the recursive call.
ReturnPass(b) ==
  IF Len(b.stack) = 1
  THEN [b EXCEPT !.status = "returned"]
  ELSE Resume(b, Caller(b), Top(b).iterations, Top(b).steps)

\* The pass of the loop for the branch taken.
BranchPass(branch, parsed_lines, b) ==
  CASE branch = "return" -> ReturnPass(b)
    [] branch = "over_indent" -> SkipLine(b)
    [] branch = "note" -> NotePass(parsed_lines, b)
    [] branch = "bad_repeat" -> SkipLine(b)
    [] branch = "repeat" -> RepeatPass(parsed_lines, b)
    [] branch = "step" -> StepPass(parsed_lines, b)
    [] OTHER -> b

\* One pass of the loop.
BuildPass(parsed_lines, b) == BranchPass(Branch(parsed_lines, b), parsed_lines, b)

\* The builder run to its end: the state in which the outermost call has
\* returned or an exception has left it.
RECURSIVE RunBuild(_, _)
RunBuild(parsed_lines, b) ==
  IF b.status # "running" THEN b
  ELSE RunBuild(parsed_lines, BuildPass(parsed_lines, b))

\* What _build_steps_recursive gives its caller: [type "built", steps,
\* next_index] or the exception.
BuildResult(b) ==
  IF b.status = "raised"
  THEN Raise(b.exc)
  ELSE [type |-> "built", steps |-> b.stack[1].steps, next_index |-> b.i]

build_step_tree(parsed_lines) ==
  IF parsed_lines = <<>>
  THEN [type |-> "built", steps |-> <<>>, next_index |-> 0]
  ELSE BuildResult(RunBuild(parsed_lines, BuildStart(0, 0)))

(***************************************************************************)
(* csv_parser.py: cell parser                                              *)
(***************************************************************************)

\* if parsed: parsed_lines.append(parsed)
KeepLine(parsed) == IF parsed.type = "none" THEN <<>> ELSE <<parsed>>

\* The ParsedLines of the step lines, blank and colon-less lines left out.
RECURSIVE ParseLines(_)
ParseLines(step_lines) ==
  IF step_lines = <<>> THEN <<>>
  ELSE KeepLine(parse_line(step_lines[1])) \o ParseLines(Tail(step_lines))

NamedHeader(workout_name, lines) ==
  IF lines = <<>>
  THEN NoneValue
  ELSE [type |-> "header", workout_name |-> workout_name, parsed_lines |-> lines]

\* TypedHeader without the test of the workout type: every sport accepted.
TypedHeader_AnySport(workout_type, name, step_lines) ==
  NamedHeader(IF name = <<>> THEN Txt_Workout ELSE name, ParseLines(step_lines))

TypedHeader(workout_type, name, step_lines) ==
  IF workout_type # Txt_running
  THEN NoneValue
  ELSE NamedHeader(IF name = <<>> THEN Txt_Workout ELSE name,
                   ParseLines(step_lines))

HeaderLine(header_line, step_lines) ==
  IF ~Contains(header_line, ":")
  THEN NoneValue
  ELSE TypedHeader(lower(strip(SplitOnce(header_line, ":")[1])),
                   strip(SplitOnce(header_line, ":")[2]),
                   step_lines)

\* lines = cell_content.strip().split("\n")
CellLines(lines) == HeaderLine(strip(lines[1]), Tail(lines))

\* The part of parse_workout_text before the tree is built: NoneValue when
\* the cell is rejected, else the workout name and the parsed lines.
ParseHeader(cell) ==
  IF strip(cell) = <<>>
  THEN NoneValue
  ELSE CellLines(split(strip(cell), "\n"))

\* The part of parse_workout_text after the tree is built.
FinishWorkout(name, built) ==
  IF IsRaise(built) THEN built
  ELSE IF built.steps = <<>> THEN NoneValue
  ELSE Workout(name, built.steps)

WorkoutOf(h) ==
  IF h.type = "none" THEN NoneValue
  ELSE FinishWorkout(h.workout_name, build_step_tree(h.parsed_lines))

\* parse_workout_text(cell) as a function: a Workout, NoneValue or the
\* exception that leaves it.
parse_workout_text(cell) == WorkoutOf(ParseHeader(cell))

(***************************************************************************)
(* Inputs: raw cell texts                                                  *)
(***************************************************************************)

\* '- run: 2:00'
Raw_run0 ==
  <<"-", " ", "r", "u", "n", ":", " ", "2", ":", "0", "0">>

\* '  - recover: 1:30 @z1'
Raw_recover1 ==
  <<" ", " ", "-", " ", "r", "e", "c", "o", "v", "e", "r", ":", " ", "1",
    ":", "3", "0", " ", "@", "z", "1">>

\* '    - run: 400m; jog'
Raw_run2 ==
  <<" ", " ", " ", " ", "-", " ", "r", "u", "n", ":", " ", "4", "0", "0",
    "m", ";", " ", "j", "o", "g">>

\* '- repeat: 4'
Raw_repeat0 ==
  <<"-", " ", "r", "e", "p", "e", "a", "t", ":", " ", "4">>

\* '  - repeat: 2'
Raw_repeat1 ==
  <<" ", " ", "-", " ", "r", "e", "p", "e", "a", "t", ":", " ", "2">>

\* '- note: "nice"'
Raw_note0 ==
  <<"-", " ", "n", "o", "t", "e", ":", " ", "\"", "n", "i", "c", "e", "\"">>

\* '- note: easy'
Raw_easy0 ==
  <<"-", " ", "n", "o", "t", "e", ":", " ", "e", "a", "s", "y">>

\* '- bike: 60:00'
Raw_bike0 ==
  <<"-", " ", "b", "i", "k", "e", ":", " ", "6", "0", ":", "0", "0">>

\* '  - bike: 60:00'
Raw_bike1 ==
  <<" ", " ", "-", " ", "b", "i", "k", "e", ":", " ", "6", "0", ":", "0",
    "0">>

\* '  - repeat: x'
Raw_badrepeat1 ==
  <<" ", " ", "-", " ", "r", "e", "p", "e", "a", "t", ":", " ", "x">>

\* '- repeat: 0'
Raw_repeatzero0 ==
  <<"-", " ", "r", "e", "p", "e", "a", "t", ":", " ", "0">>

\* '  - note: easy'
Raw_easy1 ==
  <<" ", " ", "-", " ", "n", "o", "t", "e", ":", " ", "e", "a", "s", "y">>

\* '- run: 0:00'
Raw_zero0 == <<"-", " ", "r", "u", "n", ":", " ", "0", ":", "0", "0">>

\* '- run: 2:00; jog'
Raw_jog0 ==
  <<"-", " ", "r", "u", "n", ":", " ", "2", ":", "0", "0", ";", " ", "j",
    "o", "g">>

\* 'running: Intervals'
Hdr_Intervals ==
  <<"r", "u", "n", "n", "i", "n", "g", ":", " ", "I", "n", "t", "e", "r",
    "v", "a", "l", "s">>

\* '  RUNNING : Easy Run'
Hdr_Upper ==
  <<" ", " ", "R", "U", "N", "N", "I", "N", "G", " ", ":", " ", "E", "a",
    "s", "y", " ", "R", "u", "n">>

\* 'Running:'
Hdr_NoName ==
  <<"R", "u", "n", "n", "i", "n", "g", ":">>

\* 'cycling: Bike Ride'
Hdr_Cycling ==
  <<"c", "y", "c", "l", "i", "n", "g", ":", " ", "B", "i", "k", "e", " ",
    "R", "i", "d", "e">>

\* 'run: Intervals'
Hdr_Run ==
  <<"r", "u", "n", ":", " ", "I", "n", "t", "e", "r", "v", "a", "l", "s">>

\* 'running'
Hdr_NoColon ==
  <<"r", "u", "n", "n", "i", "n", "g">>

\* '- warmup: 15:00 @z2'
Ex_warmup ==
  <<"-", " ", "w", "a", "r", "m", "u", "p", ":", " ", "1", "5", ":", "0",
    "0", " ", "@", "z", "2">>

\* '  - run: 2:00 @z4'
Ex_run ==
  <<" ", " ", "-", " ", "r", "u", "n", ":", " ", "2", ":", "0", "0", " ",
    "@", "z", "4">>

\* '  - recover: 1:30 @z1'
Ex_recover ==
  <<" ", " ", "-", " ", "r", "e", "c", "o", "v", "e", "r", ":", " ", "1",
    ":", "3", "0", " ", "@", "z", "1">>

\* '- cooldown: 10:00 @z1'
Ex_cooldown ==
  <<"-", " ", "c", "o", "o", "l", "d", "o", "w", "n", ":", " ", "1", "0",
    ":", "0", "0", " ", "@", "z", "1">>

\* 'Intervals'
Txt_Intervals ==
  <<"I", "n", "t", "e", "r", "v", "a", "l", "s">>

\* 'nice'
Txt_nice ==
  <<"n", "i", "c", "e">>

\* 'easy'
Txt_easy ==
  <<"e", "a", "s", "y">>

\* 'jog'
Txt_jog ==
  <<"j", "o", "g">>

\* All lists of at most n elements of S.
RECURSIVE ListsUpTo(_, _)
ListsUpTo(S, n) ==
  IF n = 0 THEN {<<>>}
  ELSE LET shorter == ListsUpTo(S, n - 1)
       IN  shorter \cup {Append(l, x) : l \in {m \in shorter : Len(m) = n - 1}, x \in S}

\* "\n".join(lines)
RECURSIVE JoinLines(_)
JoinLines(lines) ==
  IF lines = <<>> THEN <<>>
  ELSE IF Len(lines) = 1 THEN lines[1]
  ELSE lines[1] \o <<"\n">> \o JoinLines(Tail(lines))

\* The text of a cell: the header line, then the step lines.
CellText(header, lines) == JoinLines(<<header>> \o lines)

\* The longest list of step lines of a generated cell.
MaxLines == 4

\* The longest list of step lines under a header other than Hdr_Intervals.
MaxHeaderLines == 2

\* The step lines cells are made of.
RawLines ==
  { Raw_run0, Raw_recover1, Raw_run2, Raw_repeat0, Raw_repeat1, Raw_note0,
    Raw_easy0, Raw_bike0, Raw_bike1, Raw_badrepeat1 }

Headers ==
  { Hdr_Intervals, Hdr_Upper, Hdr_NoName, Hdr_Cycling, Hdr_Run, Hdr_NoColon }

\* The end-to-end example of the specification.
ExampleCell ==
  CellText(Hdr_Intervals,
           <<Ex_warmup, Raw_repeat0, Ex_run, Ex_recover, Ex_cooldown>>)

\* Step lines with a repeat count of 0: before a nested line, between
\* other lines, and before a line that is not nested.
ZeroCountLines ==
  { <<Raw_repeatzero0, Raw_recover1>>,
    <<Raw_run0, Raw_repeatzero0, Raw_recover1, Raw_run0>>,
    <<Raw_repeatzero0, Raw_run0>> }

\* Step lines with a note nested in a repeat group: first in the group,
\* alone in the group, and after a step of the group.
NestedNoteLines ==
  { <<Raw_run0, Raw_repeat0, Raw_easy1, Raw_recover1>>,
    <<Raw_run0, Raw_repeat0, Raw_easy1>>,
    <<Raw_repeat0, Raw_recover1, Raw_easy1>> }

\* Step lines with a duration of zero between two steps.
ZeroTimeLines == { <<Raw_run0, Raw_zero0, Raw_run0>> }

\* Step lines with a note line after a step that has a ';' note.
NotedStepLines ==
  { <<Raw_jog0, Raw_easy0>>,
    <<Raw_jog0, Raw_note0, Raw_easy0, Raw_run0>> }

Cells ==
  {CellText(Hdr_Intervals, l) : l \in ListsUpTo(RawLines, MaxLines)}
    \cup {CellText(h, l) : h \in Headers, l \in ListsUpTo(RawLines, MaxHeaderLines)}
    \cup {ExampleCell}
    \cup {CellText(Hdr_Intervals, l) : l \in ZeroCountLines}
    \cup {CellText(Hdr_Intervals, l) : l \in NestedNoteLines}
    \cup {CellText(Hdr_Intervals, l) : l \in ZeroTimeLines}
    \cup {CellText(Hdr_Intervals, l) : l \in NotedStepLines}

(***************************************************************************)
(* The cell parser as a state machine                                      *)
(***************************************************************************)

VARIABLES
  pc,            \* "cell", "build", "done"
  cell_content,  \* the argument of parse_workout_text
  workout_name,  \* the name read from the header
  parsed_lines,  \* the list given to the tree builder
  b,             \* the tree builder's state
  workout,       \* the value parse_workout_text returns
  arg,           \* the text given to a resolver called on its own
  ret,           \* what a call made on its own returned or raised
  written,       \* the minutes and seconds a duration text was written from
  plan,          \* the table parse_training_plan reads: columns and rows
  start_date,    \* its start_date argument, as a day number
  row_idx,       \* the index of the row being read
  week_start,    \* the day number of the row's week
  day_indices,   \* the day columns found: day index and place of the column
  day_pos,       \* the position in day_indices of the cell being read
  result         \* the list of (date, Workout) built so far

\* The variables of a resolver called on its own.
callVars == <<arg, ret, written>>

\* The variables of parse_training_plan.
planVars ==
  <<plan, start_date, day_indices, row_idx, week_start, day_pos, result>>

vars ==
  <<pc, cell_content, workout_name, parsed_lines, b, workout, arg, ret,
    written, plan, start_date, day_indices, row_idx, week_start, day_pos,
    result>>

\* No plan is being read.
NoPlan ==
  /\ plan = [header |-> <<>>, columns |-> <<>>, rows |-> <<>>]
  /\ start_date = 0
  /\ day_indices = <<>>
  /\ row_idx = 0
  /\ week_start = 0
  /\ day_pos = 0
  /\ result = <<>>

\* The builder before build_step_tree is called.
Idle == [i |-> 0, stack |-> <<>>, status |-> "idle", exc |-> ""]

Init ==
  /\ pc = "cell"
  /\ cell_content \in Cells
  /\ workout_name = <<>>
  /\ parsed_lines = <<>>
  /\ b = Idle
  /\ workout = NoneValue
  /\ arg = <<>>
  /\ ret = NoneValue
  /\ written = NoneValue
  /\ NoPlan

\* parse_workout_text returns None before building any step.
RejectCell ==
  /\ pc = "cell"
  /\ ParseHeader(cell_content).type = "none"
  /\ pc' = "done"
  /\ workout' = NoneValue
  /\ UNCHANGED <<cell_content, workout_name, parsed_lines, b, callVars,
                 planVars>>

\* parse_workout_text has read the header h and tokenized the step lines.
Started(h) ==
  /\ h.type = "header"
  /\ pc' = "build"
  /\ workout_name' = h.workout_name
  /\ parsed_lines' = h.parsed_lines
  /\ b' = BuildStart(0, 0)
  /\ UNCHANGED <<cell_content, workout, callVars, planVars>>

\* parse_workout_text reads the header, tokenizes the step lines and
\* calls build_step_tree.
StartBuild ==
  /\ pc = "cell"
  /\ Started(ParseHeader(cell_content))

\* The builder runs and its loop takes the given branch.
Taken(branch) == pc = "build" /\ Branch(parsed_lines, b) = branch

\* The loop ends (end of lines or a lower indent): the running call returns.
Return ==
  /\ Taken("return")
  /\ b' = ReturnPass(b)
  /\ UNCHANGED <<pc, cell_content, workout_name, parsed_lines, workout,
                 callVars, planVars>>

\* A line indented deeper than expected is skipped.
OverIndent ==
  /\ Taken("over_indent")
  /\ b' = SkipLine(b)
  /\ UNCHANGED <<pc, cell_content, workout_name, parsed_lines, workout,
                 callVars, planVars>>

\* A note line is attached to the step before it and consumed.
Note ==
  /\ Taken("note")
  /\ b' = NotePass(parsed_lines, b)
  /\ UNCHANGED <<pc, cell_content, workout_name, parsed_lines, workout,
                 callVars, planVars>>

\* A repeat line whose count is not an integer is skipped.
BadRepeat ==
  /\ Taken("bad_repeat")
  /\ b' = SkipLine(b)
  /\ UNCHANGED <<pc, cell_content, workout_name, parsed_lines, workout,
                 callVars, planVars>>

\* A repeat line starts the recursive call for its children.
Repeat ==
  /\ Taken("repeat")
  /\ b' = RepeatPass(parsed_lines, b)
  /\ UNCHANGED <<pc, cell_content, workout_name, parsed_lines, workout,
                 callVars, planVars>>

\* Any other line goes through parse_step.
Step ==
  /\ Taken("step")
  /\ b' = StepPass(parsed_lines, b)
  /\ UNCHANGED <<pc, cell_content, workout_name, parsed_lines, workout,
                 callVars, planVars>>

\* build_step_tree has returned or raised: parse_workout_text finishes.
Finish ==
  /\ pc = "build"
  /\ b.status \in {"returned", "raised"}
  /\ pc' = "done"
  /\ workout' = FinishWorkout(workout_name, BuildResult(b))
  /\ UNCHANGED <<cell_content, workout_name, parsed_lines, b, callVars,
                 planVars>>

Next ==
  \/ RejectCell
  \/ StartBuild
  \/ Return
  \/ OverIndent
  \/ Note
  \/ BadRepeat
  \/ Repeat
  \/ Step
  \/ Finish

Spec == Init /\ [][Next]_vars

(***************************************************************************)
(* _build_steps_recursive called directly: any list of parsed lines, any   *)
(* start_index within the list and any expected_indent.                    *)
(***************************************************************************)

\* The longest list of parsed lines handed to a direct call.
MaxBuildLines == 3

\* The largest expected_indent of a direct call.
MaxIndent == 2

\* The parsed lines direct calls are made of.
BuildLines ==
  { parse_line(raw) :
      raw \in { Raw_run0, Raw_recover1, Raw_run2, Raw_repeat0, Raw_repeat1,
                Raw_note0, Raw_bike1, Raw_badrepeat1 } }

InitBuild ==
  /\ pc = "build"
  /\ cell_content = <<>>
  /\ workout_name = <<>>
  /\ parsed_lines \in ListsUpTo(BuildLines, MaxBuildLines)
  /\ \E start_index \in 0..Len(parsed_lines), expected_indent \in 0..MaxIndent :
       b = BuildStart(start_index, expected_indent)
  /\ workout = NoneValue
  /\ arg = <<>>
  /\ ret = NoneValue
  /\ written = NoneValue
  /\ NoPlan

NextBuild ==
  \/ Return
  \/ OverIndent
  \/ Note
  \/ BadRepeat
  \/ Repeat
  \/ Step

SpecBuild == InitBuild /\ [][NextBuild]_vars

\* The same calls about to be made: no list of parsed lines chosen yet.
InitCall ==
  /\ pc = "call"
  /\ cell_content = <<>>
  /\ workout_name = <<>>
  /\ parsed_lines = <<>>
  /\ b = Idle
  /\ workout = NoneValue
  /\ arg = <<>>
  /\ ret = NoneValue
  /\ written = NoneValue
  /\ NoPlan

\* _build_steps_recursive is entered with a list, a start_index and an
\* expected_indent.
CallBuild ==
  /\ pc = "call"
  /\ pc' = "build"
  /\ parsed_lines' \in ListsUpTo(BuildLines, MaxBuildLines)
  /\ \E start_index \in 0..Len(parsed_lines'), expected_indent \in 0..MaxIndent :
       b' = BuildStart(start_index, expected_indent)
  /\ UNCHANGED <<cell_content, workout_name, workout, callVars, planVars>>

NextCall ==
  \/ CallBuild
  \/ Return
  \/ OverIndent
  \/ Note
  \/ BadRepeat
  \/ Repeat
  \/ Step

\* The states in which a step of NextCall can be taken: the call is about
\* to be made, or its loop is running.
CanPass == pc = "call" \/ (pc = "build" /\ b.status = "running")

\* The interpreter executes the next pass of the loop whenever there is
\* one: weak fairness of NextCall, WF_vars(NextCall), with
\* ENABLED <<NextCall>>_vars written as the state predicate CanPass.
SpecBuildFair ==
  InitCall /\ [][NextCall]_vars /\ ([]<>~CanPass \/ []<><<NextCall>>_vars)

(***************************************************************************)
(* The resolvers called on their own: parse_end_condition_and_target on a  *)
(* value text, parse_target on a target text.                              *)
(***************************************************************************)

\* Texts of end conditions: 'lap-button', 'Lap-Button', '15:00', '225:00', '1:60', '0:00', '2km', '1.5 mi', '0km', '400m', 'fast', '', '1234:00', '5k'
EndTexts ==
  { <<"l", "a", "p", "-", "b", "u", "t", "t", "o", "n">>,
    <<"L", "a", "p", "-", "B", "u", "t", "t", "o", "n">>,
    <<"1", "5", ":", "0", "0">>,
    <<"2", "2", "5", ":", "0", "0">>,
    <<"1", ":", "6", "0">>,
    <<"0", ":", "0", "0">>,
    <<"2", "k", "m">>,
    <<"1", ".", "5", " ", "m", "i">>,
    <<"0", "k", "m">>,
    <<"4", "0", "0", "m">>,
    <<"f", "a", "s", "t">>,
    <<>>,
    <<"1", "2", "3", "4", ":", "0", "0">>,
    <<"5", "k">> }

\* Texts of targets after '@': 'z2', 'Z5', 'z6', '4:30-5:00', '5:00 - 4:30mpm', '0:00-4:30', 'easy'
AtTexts ==
  { <<"z", "2">>,
    <<"Z", "5">>,
    <<"z", "6">>,
    <<"4", ":", "3", "0", "-", "5", ":", "0", "0">>,
    <<"5", ":", "0", "0", " ", "-", " ", "4", ":", "3", "0", "m", "p",
      "m">>,
    <<"0", ":", "0", "0", "-", "4", ":", "3", "0">>,
    <<"e", "a", "s", "y">> }

\* The value texts: an end condition alone, or with ' @' and a target.
ValueTexts ==
  EndTexts \cup {e \o <<" ", "@">> \o t : e \in EndTexts, t \in AtTexts}

\* Pace times: '0:00', '4:30', '5:00', '12:59'
PaceTimes ==
  { <<"0", ":", "0", "0">>,
    <<"4", ":", "3", "0">>,
    <<"5", ":", "0", "0">>,
    <<"1", "2", ":", "5", "9">> }

\* Separators of the two times of a pace range: '-', ' - '
PaceSeparators ==
  { <<"-">>,
    <<" ", "-", " ">> }

\* Unit suffixes of a pace range: '', 'mpk', 'mpm', 'MPM', ' mpk'
PaceSuffixes ==
  { <<>>,
    <<"m", "p", "k">>,
    <<"m", "p", "m">>,
    <<"M", "P", "M">>,
    <<" ", "m", "p", "k">> }

\* Zone texts and other target texts: 'z1', 'Z3', 'z5', 'z0', 'z6', 'z', 'zz2', ' z2 ', 'easy', '', '4:30', '4:30-5', '123:00-4:30', '4:60-5:00'
OtherTargets ==
  { <<"z", "1">>,
    <<"Z", "3">>,
    <<"z", "5">>,
    <<"z", "0">>,
    <<"z", "6">>,
    <<"z">>,
    <<"z", "z", "2">>,
    <<" ", "z", "2", " ">>,
    <<"e", "a", "s", "y">>,
    <<>>,
    <<"4", ":", "3", "0">>,
    <<"4", ":", "3", "0", "-", "5">>,
    <<"1", "2", "3", ":", "0", "0", "-", "4", ":", "3", "0">>,
    <<"4", ":", "6", "0", "-", "5", ":", "0", "0">> }

\* The target texts.
TargetTexts ==
  OtherTargets
    \cup {slow \o sep \o fast \o suffix :
            slow \in PaceTimes, sep \in PaceSeparators, fast \in PaceTimes,
            suffix \in PaceSuffixes}

\* The state before a resolver is called on its own with the text given.
CallOf(position, texts) ==
  /\ pc = position
  /\ cell_content = <<>>
  /\ workout_name = <<>>
  /\ parsed_lines = <<>>
  /\ b = Idle
  /\ workout = NoneValue
  /\ arg \in texts
  /\ ret = NoneValue
  /\ written = NoneValue
  /\ NoPlan

InitValue == CallOf("value", ValueTexts)

\* parse_end_condition_and_target(arg) returns or raises.
CallParseValue ==
  /\ pc = "value"
  /\ pc' = "done"
  /\ ret' = parse_end_condition_and_target(arg)
  /\ UNCHANGED <<cell_content, workout_name, parsed_lines, b, workout, arg, written>>
  /\ UNCHANGED planVars

SpecValue == InitValue /\ [][CallParseValue]_vars

InitTarget == CallOf("target", TargetTexts)

\* parse_target(arg) returns or raises.
CallParseTarget ==
  /\ pc = "target"
  /\ pc' = "done"
  /\ ret' = parse_target(arg)
  /\ UNCHANGED <<cell_content, workout_name, parsed_lines, b, workout, arg, written>>
  /\ UNCHANGED planVars

SpecTarget == InitTarget /\ [][CallParseTarget]_vars

InitPace == CallOf("pace", TargetTexts)

\* parse_pace_to_meters_per_second(arg) returns or raises.
CallParsePace ==
  /\ pc = "pace"
  /\ pc' = "done"
  /\ ret' = parse_pace_to_meters_per_second(arg)
  /\ UNCHANGED <<cell_content, workout_name, parsed_lines, b, workout, arg, written>>
  /\ UNCHANGED planVars

SpecPace == InitPace /\ [][CallParsePace]_vars

\* The largest minutes and seconds written into a duration text.
MaxMinutes == 999

MaxSeconds == 99

\* The decimal digits of a natural number.
RECURSIVE Decimal(_)
Decimal(n) ==
  IF n < 10 THEN <<Digits[n + 1]>>
  ELSE Append(Decimal(n \div 10), Digits[(n % 10) + 1])

\* The number written with at least two digits.
TwoDigits(n) == IF n < 10 THEN <<"0">> \o Decimal(n) ELSE Decimal(n)

\* 'm:ss' and 'mm:ss'
TimeText(m, s) == Decimal(m) \o <<":">> \o TwoDigits(s)

PaddedTimeText(m, s) == TwoDigits(m) \o <<":">> \o TwoDigits(s)

\* The text with whitespace before it, after it, or both.
Spaced(text) ==
  {<<" ">> \o text, text \o <<" ">>, <<"\t">> \o text \o <<" ", "\n">>}

\* Minutes and seconds of the duration texts written with whitespace.
SpacedMinutes == {0, 15, 225}

SpacedSeconds == {0, 45, 60}

\* 'lap-button' in three letter cases and with a space; texts of other
\* shapes: '1000:00', ':30', '5:0', '5:000', '15-00', '1:5a', '1 :30',
\* 'invalid', ''.
OtherDurations ==
  { Txt_lap_button,
    <<"L", "A", "P", "-", "B", "U", "T", "T", "O", "N">>,
    <<"L", "a", "p", "-", "B", "u", "t", "t", "o", "n">>,
    <<" ", "l", "a", "p", "-", "b", "u", "t", "t", "o", "n">>,
    <<"l", "a", "p", "-", "b", "u", "t", "t", "o", "n", " ">>,
    <<"1", "0", "0", "0", ":", "0", "0">>,
    <<":", "3", "0">>,
    <<"5", ":", "0">>,
    <<"5", ":", "0", "0", "0">>,
    <<"1", "5", "-", "0", "0">>,
    <<"1", ":", "5", "a">>,
    <<"1", " ", ":", "3", "0">>,
    <<"i", "n", "v", "a", "l", "i", "d">>,
    <<>> }

InitDuration ==
  /\ pc = "duration"
  /\ cell_content = <<>>
  /\ workout_name = <<>>
  /\ parsed_lines = <<>>
  /\ b = Idle
  /\ workout = NoneValue
  /\ ret = NoneValue
  /\ NoPlan
  /\ \/ \E m \in 0..MaxMinutes : \E s \in 0..MaxSeconds :
          /\ written = [minutes |-> m, seconds |-> s]
          /\ arg \in {TimeText(m, s), PaddedTimeText(m, s)}
     \/ \E m \in SpacedMinutes : \E s \in SpacedSeconds :
          /\ written = [minutes |-> m, seconds |-> s]
          /\ arg \in Spaced(TimeText(m, s))
     \/ /\ written = NoneValue
        /\ arg \in OtherDurations

\* parse_duration_to_seconds(arg) returns or raises.
CallParseDuration ==
  /\ pc = "duration"
  /\ pc' = "done"
  /\ ret' = parse_duration_to_seconds(arg)
  /\ UNCHANGED <<cell_content, workout_name, parsed_lines, b, workout, arg, written>>
  /\ UNCHANGED planVars

SpecDuration == InitDuration /\ [][CallParseDuration]_vars

(***************************************************************************)
(* Rendering called on its own: ExecutableStep.to_garmin_dict on a step    *)
(* built by the constructor, Workout.to_garmin_dict on a Workout.          *)
(***************************************************************************)

\* The most top-level steps of a generated Workout, and the largest
\* step_order given to a step rendered on its own.
MaxSteps == 3

MaxOrder == 2

\* End condition and target of the generated steps.
RenderConditions ==
  { [end_condition |-> LapButtonEndCondition, target |-> NoTarget],
    [end_condition |-> TimeEndCondition(120), target |-> HeartRateZoneTarget(4)],
    [end_condition |-> DistanceEndCondition(Frac(400, 1)),
     target |-> PaceTarget(Frac(1000, 300), Frac(1000, 270))] }

\* The members of StepType.
StepTypes == {WARMUP, COOLDOWN, INTERVAL, RECOVER, REST, REPEAT}

\* Every ExecutableStep the constructor accepts over these fields.
RenderSteps ==
  { ExecutableStep(step_type, Txt_run, c.end_condition, c.target,
                   description, cross) :
      step_type \in StepTypes, c \in RenderConditions,
      description \in {None, <<>>, Txt_nice}, cross \in BOOLEAN }

\* Two steps and three repeat groups, nested up to two deep.
Step_run ==
  ExecutableStep(INTERVAL, Txt_run, TimeEndCondition(120),
                 HeartRateZoneTarget(4), None, FALSE)

Step_recover ==
  ExecutableStep(RECOVER, Txt_recover, LapButtonEndCondition, NoTarget,
                 Txt_nice, FALSE)

Group_flat == RepeatStep(4, <<Step_run, Step_recover>>)

Group_first == RepeatStep(2, <<Group_flat, Step_run>>)

Group_last == RepeatStep(3, <<Step_recover, Group_first>>)

RenderWorkouts ==
  { Workout(Txt_Intervals, steps) :
      steps \in ListsUpTo({Step_run, Group_flat, Group_first, Group_last},
                          MaxSteps) \ {<<>>} }

InitRender ==
  /\ cell_content = <<>>
  /\ workout_name = <<>>
  /\ parsed_lines = <<>>
  /\ b = Idle
  /\ ret = NoneValue
  /\ written = NoneValue
  /\ NoPlan
  /\ \/ /\ pc = "workout"
        /\ workout \in RenderWorkouts
        /\ arg = <<>>
     \/ /\ pc = "step"
        /\ workout = NoneValue
        /\ arg \in [self : RenderSteps, step_order : 0..MaxOrder]

\* workout.to_garmin_dict()
RenderWorkout ==
  /\ pc = "workout"
  /\ pc' = "done"
  /\ ret' = Workout_to_garmin_dict(workout)
  /\ UNCHANGED <<cell_content, workout_name, parsed_lines, b, workout, arg, written>>
  /\ UNCHANGED planVars

\* step.to_garmin_dict(step_order)
RenderStep ==
  /\ pc = "step"
  /\ pc' = "done"
  /\ ret' = ExecutableStep_to_garmin_dict(arg.self, arg.step_order)
  /\ UNCHANGED <<cell_content, workout_name, parsed_lines, b, workout, arg, written>>
  /\ UNCHANGED planVars

NextRender == RenderWorkout \/ RenderStep

SpecRender == InitRender /\ [][NextRender]_vars

(***************************************************************************)
(* parse_workout_text on a cell, and again on the cell text written back   *)
(* from the Workout it built.                                              *)
(***************************************************************************)

\* The longest list of step lines of a cell parsed twice.
MaxRoundLines == 3

\* '- warmup: 15:00 @z2'
Round_warmup0 ==
  <<"-", " ", "w", "a", "r", "m", "u", "p", ":", " ", "1", "5", ":", "0", "0", " ", "@", "z", "2">>

\* '- repeat: 4'
Round_repeat0 ==
  <<"-", " ", "r", "e", "p", "e", "a", "t", ":", " ", "4">>

\* '  - run: 400m @4:30-5:00; jog'
Round_run1 ==
  <<" ", " ", "-", " ", "r", "u", "n", ":", " ", "4", "0", "0", "m", " ", "@", "4", ":", "3", "0", "-", "5", ":", "0", "0", ";", " ", "j", "o", "g">>

\* '  - recover: lap-button'
Round_recover1 ==
  <<" ", " ", "-", " ", "r", "e", "c", "o", "v", "e", "r", ":", " ", "l", "a", "p", "-", "b", "u", "t", "t", "o", "n">>

\* '  - note: easy'
Round_note1 ==
  <<" ", " ", "-", " ", "n", "o", "t", "e", ":", " ", "e", "a", "s", "y">>

\* '- other: 1.5km @8:00-7:00mpm'
Round_other0 ==
  <<"-", " ", "o", "t", "h", "e", "r", ":", " ", "1", ".", "5", "k", "m", " ", "@", "8", ":", "0", "0", "-", "7", ":", "0", "0", "m", "p", "m">>

\* '  - repeat: 2'
Round_repeat1 ==
  <<" ", " ", "-", " ", "r", "e", "p", "e", "a", "t", ":", " ", "2">>

\* '    - go: 0:45'
Round_go2 ==
  <<" ", " ", " ", " ", "-", " ", "g", "o", ":", " ", "0", ":", "4", "5">>

\* '- note: "nice "'
Round_quoted0 ==
  <<"-", " ", "n", "o", "t", "e", ":", " ", "\"", "n", "i", "c", "e", " ", "\"">>

RoundLines ==
  {Round_warmup0, Round_repeat0, Round_run1, Round_recover1, Round_note1,
    Round_other0, Round_repeat1, Round_go2, Round_quoted0}

RoundCells ==
  {CellText(Hdr_Intervals, lines) : lines \in ListsUpTo(RoundLines, MaxRoundLines)}

\* seconds as 'm:ss'
EmitTime(seconds) == Decimal(seconds \div 60) \o <<":">> \o TwoDigits(seconds % 60)

\* The digits of n written with that many places.
RECURSIVE Places(_, _)
Places(n, places) ==
  IF places = 0 THEN <<>>
  ELSE Append(Places(n \div 10, places - 1), Digits[(n % 10) + 1])

\* The number of decimal places of a power of ten.
RECURSIVE PlacesOf(_)
PlacesOf(power) == IF power = 1 THEN 0 ELSE 1 + PlacesOf(power \div 10)

\* Metres as a decimal number and 'm'.
EmitDistance(meters) ==
  IF meters.num % meters.den = 0
  THEN Decimal(meters.num \div meters.den) \o <<"m">>
  ELSE Decimal(meters.num \div meters.den) \o <<".">>
         \o Places(meters.num % meters.den, PlacesOf(meters.den)) \o <<"m">>

EmitEndCondition(end_condition) ==
  CASE end_condition.type = "time" -> EmitTime(end_condition.duration_seconds)
    [] end_condition.type = "distance" -> EmitDistance(end_condition.distance_meters)
    [] end_condition.type = "lap_button" -> Txt_lap_button

\* A speed as the pace it was computed from, and the unit of that pace.
EmitPace(speed) == EmitTime(speed.den)

EmitPaceUnit(speed) == IF speed.num = 1609344 THEN Txt_mpm ELSE <<>>

EmitTarget(target) ==
  CASE target.type = "no_target" -> <<>>
    [] target.type = "hr_zone" -> <<" ", "@", "z">> \o Decimal(target.zone)
    [] target.type = "pace" ->
         <<" ", "@">> \o EmitPace(target.min_speed_mps) \o <<"-">>
           \o EmitPace(target.max_speed_mps)
           \o EmitPaceUnit(target.min_speed_mps)

EmitNotes(description) ==
  IF description = None THEN <<>> ELSE <<";", " ">> \o description

\* Two spaces per nesting level and the dash.
RECURSIVE EmitIndent(_)
EmitIndent(level) ==
  IF level = 0 THEN <<"-", " ">> ELSE <<" ", " ">> \o EmitIndent(level - 1)

EmitStepLine(step, level) ==
  EmitIndent(level) \o step.step_type_keyword \o <<":", " ">>
    \o EmitEndCondition(step.end_condition) \o EmitTarget(step.target)
    \o EmitNotes(step.description)

EmitRepeatLine(step, level) ==
  EmitIndent(level) \o Txt_repeat \o <<":", " ">> \o Decimal(step.iterations)

\* One line per step, a repeat line before the lines of its children.
RECURSIVE EmitSteps(_, _)
EmitSteps(steps, level) ==
  IF steps = <<>> THEN <<>>
  ELSE (IF steps[1].type = "executable"
        THEN <<EmitStepLine(steps[1], level)>>
        ELSE <<EmitRepeatLine(steps[1], level)>>
               \o EmitSteps(steps[1].steps, level + 1))
         \o EmitSteps(Tail(steps), level)

\* The cell text of a Workout.
EmitCell(self) ==
  CellText(Txt_running \o <<":", " ">> \o self.name, EmitSteps(self.steps, 0))

InitRound ==
  /\ pc = "cell"
  /\ cell_content \in RoundCells
  /\ workout_name = <<>>
  /\ parsed_lines = <<>>
  /\ b = Idle
  /\ workout = NoneValue
  /\ arg = <<>>
  /\ ret = NoneValue
  /\ written = NoneValue
  /\ NoPlan

\* workout = parse_workout_text(cell_content)
ParseCell ==
  /\ pc = "cell"
  /\ pc' = "built"
  /\ workout' = parse_workout_text(cell_content)
  /\ UNCHANGED <<cell_content, workout_name, parsed_lines, b, arg, ret, written>>
  /\ UNCHANGED planVars

\* parse_workout_text on the cell text written back from the Workout.
ParseEmitted ==
  /\ pc = "built"
  /\ workout.type = "workout"
  /\ pc' = "done"
  /\ arg' = EmitCell(workout)
  /\ ret' = parse_workout_text(EmitCell(workout))
  /\ UNCHANGED <<cell_content, workout_name, parsed_lines, b, workout, written>>
  /\ UNCHANGED planVars

NextRound == ParseCell \/ ParseEmitted

SpecRound == InitRound /\ [][NextRound]_vars

(***************************************************************************)
(* The tokenizer called on its own on a raw line.                          *)
(***************************************************************************)

\* Leading whitespace: none, one to four spaces, one and two tabs, ' \t '
LineIndents ==
  { <<>>,
    <<" ">>,
    <<" ", " ">>,
    <<" ", " ", " ">>,
    <<" ", " ", " ", " ">>,
    <<"	">>,
    <<"	", "	">>,
    <<" ", "	", " ">> }

\* The marker: '- ', '-', none
LineMarkers ==
  { <<"-", " ">>,
    <<"-">>,
    <<>> }

\* After the marker: 'run: 2:00', 'Run : 2:00 @z4; Keep it easy ',
\* 'note: a;b:c; d', 'repeat', '', 'go:', 'RUN:5:00;', ': x', 'a - b: c'
LineBodies ==
  { <<"r", "u", "n", ":", " ", "2", ":", "0", "0">>,
    <<"R", "u", "n", " ", ":", " ", "2", ":", "0", "0", " ", "@", "z", "4", ";", " ", "K", "e", "e", "p", " ", "i", "t", " ", "e", "a", "s", "y", " ">>,
    <<"n", "o", "t", "e", ":", " ", "a", ";", "b", ":", "c", ";", " ", "d">>,
    <<"r", "e", "p", "e", "a", "t">>,
    <<>>,
    <<"g", "o", ":">>,
    <<"R", "U", "N", ":", "5", ":", "0", "0", ";">>,
    <<":", " ", "x">>,
    <<"a", " ", "-", " ", "b", ":", " ", "c">> }

\* Trailing whitespace: none, two spaces
LineEnds ==
  { <<>>,
    <<" ", " ">> }

LineTexts ==
  {indent \o marker \o body \o trailing :
     indent \in LineIndents, marker \in LineMarkers, body \in LineBodies,
     trailing \in LineEnds}

InitLine == CallOf("line", LineTexts)

\* parse_line(arg) returns a ParsedLine or None.
CallParseLine ==
  /\ pc = "line"
  /\ pc' = "done"
  /\ ret' = parse_line(arg)
  /\ UNCHANGED <<cell_content, workout_name, parsed_lines, b, workout, arg, written>>
  /\ UNCHANGED planVars

SpecLine == InitLine /\ [][CallParseLine]_vars

(***************************************************************************)
(* parse_step called on its own on a ParsedLine.                           *)
(***************************************************************************)

\* Keywords: those of the table, 'bike', 'RUN' and the empty keyword.
StepKeywords ==
  {e[1] : e \in STEP_TYPE_MAP} \cup {<<"b", "i", "k", "e">>, <<"R", "U", "N">>, <<>>}

\* Values: '2:00', '400m @z2', 'lap-button', 'fast @easy', '0:00', '2:00 @z9'
StepValues ==
  { <<"2", ":", "0", "0">>,
    <<"4", "0", "0", "m", " ", "@", "z", "2">>,
    <<"l", "a", "p", "-", "b", "u", "t", "t", "o", "n">>,
    <<"f", "a", "s", "t", " ", "@", "e", "a", "s", "y">>,
    <<"0", ":", "0", "0">>,
    <<"2", ":", "0", "0", " ", "@", "z", "9">> }

StepLines ==
  [type : {"line"}, indent_level : 0..1, keyword : StepKeywords,
   value : StepValues, notes : {None, Txt_jog}]

InitStep == CallOf("parse_step", StepLines)

\* parse_step(arg) returns an ExecutableStep or None, or raises.
CallParseStep ==
  /\ pc = "parse_step"
  /\ pc' = "done"
  /\ ret' = parse_step(arg)
  /\ UNCHANGED <<cell_content, workout_name, parsed_lines, b, workout, arg, written>>
  /\ UNCHANGED planVars

SpecStep == InitStep /\ [][CallParseStep]_vars

(***************************************************************************)
(* csv_parser.py: plan parser.  The table is df after read_csv(dtype=str,   *)
(* keep_default_na=False): the header of the file, the column names        *)
(* df.columns and rows of one text per column.  Dates are day numbers.     *)
(***************************************************************************)

\* Day column names in order (Monday = 0).
DAY_COLUMNS ==
  << <<"M", "o", "n", "d", "a", "y">>,
     <<"T", "u", "e", "s", "d", "a", "y">>,
     <<"W", "e", "d", "n", "e", "s", "d", "a", "y">>,
     <<"T", "h", "u", "r", "s", "d", "a", "y">>,
     <<"F", "r", "i", "d", "a", "y">>,
     <<"S", "a", "t", "u", "r", "d", "a", "y">>,
     <<"S", "u", "n", "d", "a", "y">> >>

Txt_WEEK == <<"W", "E", "E", "K">>

Txt_Week == <<"W", "e", "e", "k">>

\* name in df.columns
HasColumn(columns, name) == \E i \in 1..Len(columns) : columns[i] = name

\* The place of the column of that name.
ColumnAt(columns, name) == CHOOSE i \in 1..Len(columns) : columns[i] = name

has_week_col(columns) == HasColumn(columns, Txt_WEEK) \/ HasColumn(columns, Txt_Week)

week_col(columns) == IF HasColumn(columns, Txt_WEEK) THEN Txt_WEEK ELSE Txt_Week

\* IsDayColumn comparing the names as written.
IsDayColumn_Exact(col, day_idx) == col = DAY_COLUMNS[day_idx + 1]

\* col.lower() == day.lower() for the day of index day_idx (0-based).
IsDayColumn(col, day_idx) == lower(col) = lower(DAY_COLUMNS[day_idx + 1])

\* The day has a column: day_name in day_col_map.
HasDay(columns, day_idx) ==
  \E i \in 1..Len(columns) : IsDayColumn(columns[i], day_idx)

\* day_col_map[day_name], as the place of the column: the last column of
\* the table that matches the day.
day_col_map(columns, day_idx) ==
  CHOOSE i \in 1..Len(columns) :
    /\ IsDayColumn(columns[i], day_idx)
    /\ \A j \in (i + 1)..Len(columns) : ~IsDayColumn(columns[j], day_idx)

\* DaysFound enumerating the days from Sunday back to Monday.
DaysFound_SundayFirst(columns) ==
  SelectSeq(<<6, 5, 4, 3, 2, 1, 0>>, LAMBDA day_idx : HasDay(columns, day_idx))

\* The days found, in the order of DAY_COLUMNS.
DaysFound(columns) ==
  SelectSeq(<<0, 1, 2, 3, 4, 5, 6>>, LAMBDA day_idx : HasDay(columns, day_idx))

\* Each day found with the place of its column.
WithColumns(columns, days) ==
  [k \in 1..Len(days) |->
     [day_idx |-> days[k], col |-> day_col_map(columns, days[k])]]

\* day_indices and day_col_map for the table's columns.
DayIndices(columns) == WithColumns(columns, DaysFound(columns))

\* week_num of the row at row index idx.
WeekNum(columns, row, idx) ==
  IF has_week_col(columns) /\ IsIntText(row[ColumnAt(columns, week_col(columns))])
  THEN IntOfText(row[ColumnAt(columns, week_col(columns))])
  ELSE idx + 1

\* WeekStart with the week number taken as the offset in weeks.
WeekStart_FromZero(start, week_num) == start + 7 * week_num

\* week_start = start_date + timedelta(weeks=week_num - 1)
WeekStart(start, week_num) == start + 7 * (week_num - 1)

\* The day index of the cell being read.
CurrentDay == day_indices[day_pos].day_idx

\* cell_content = str(row.get(col_name, "")).strip()
CurrentCell == strip(plan.rows[row_idx + 1][day_indices[day_pos].col])

\* A day column of the row is still to be read.
AtCell == pc = "cell" /\ day_pos <= Len(day_indices)

\* df.columns.str.strip()
Stripped(columns) == [i \in 1..Len(columns) |-> strip(columns[i])]

\* df.columns = df.columns.str.strip()
StripColumns ==
  /\ pc = "read"
  /\ pc' = "plan"
  /\ plan' = [plan EXCEPT !.columns = Stripped(plan.columns)]
  /\ UNCHANGED <<cell_content, workout_name, parsed_lines, b, workout, arg, ret, written>>
  /\ UNCHANGED <<start_date, day_indices, row_idx, week_start, day_pos, result>>

\* No day column: ParserError.
NoDayColumns ==
  /\ pc = "plan"
  /\ DaysFound(plan.columns) = <<>>
  /\ pc' = "done"
  /\ ret' = Raise("ParserError")
  /\ UNCHANGED <<cell_content, workout_name, parsed_lines, b, workout, arg, written>>
  /\ UNCHANGED planVars

\* The columns are resolved; the loop over the rows starts.
StartRows ==
  /\ pc = "plan"
  /\ DaysFound(plan.columns) # <<>>
  /\ pc' = "row"
  /\ day_indices' = DayIndices(plan.columns)
  /\ row_idx' = 0
  /\ result' = <<>>
  /\ UNCHANGED <<cell_content, workout_name, parsed_lines, b, workout, arg, ret, written>>
  /\ UNCHANGED <<plan, start_date, week_start, day_pos>>

\* The next row: its week number and the date of its week.
NextRow ==
  /\ pc = "row"
  /\ row_idx < Len(plan.rows)
  /\ pc' = "cell"
  /\ week_start' =
       WeekStart(start_date, WeekNum(plan.columns, plan.rows[row_idx + 1], row_idx))
  /\ day_pos' = 1
  /\ UNCHANGED <<cell_content, workout_name, parsed_lines, b, workout, arg, ret, written>>
  /\ UNCHANGED <<plan, start_date, day_indices, row_idx, result>>

\* The pass over a cell goes on to the next day column, the list becoming
\* entries.
CellDone(entries) ==
  /\ day_pos' = day_pos + 1
  /\ result' = entries
  /\ UNCHANGED <<pc, cell_content, workout_name, parsed_lines, b, workout, arg, ret, written>>
  /\ UNCHANGED <<plan, start_date, day_indices, row_idx, week_start>>

\* if not cell_content: continue
EmptyCell ==
  /\ AtCell
  /\ CurrentCell = <<>>
  /\ CellDone(result)

\* CellFailed with the failure leaving the loops: the plan parse ends with
\* the exception.
CellFailed_Abort ==
  /\ AtCell
  /\ CurrentCell # <<>>
  /\ IsRaise(parse_workout_text(CurrentCell))
  /\ pc' = "done"
  /\ ret' = parse_workout_text(CurrentCell)
  /\ UNCHANGED <<cell_content, workout_name, parsed_lines, b, workout, arg, written>>
  /\ UNCHANGED planVars

\* parse_workout_text raises: the cell is logged and skipped.
CellFailed ==
  /\ AtCell
  /\ CurrentCell # <<>>
  /\ IsRaise(parse_workout_text(CurrentCell))
  /\ CellDone(result)

\* parse_workout_text returns None: nothing is appended.
CellNone ==
  /\ AtCell
  /\ CurrentCell # <<>>
  /\ parse_workout_text(CurrentCell).type = "none"
  /\ CellDone(result)

\* if workout: result.append((workout_date, workout))
Appended(parsed) ==
  /\ parsed.type = "workout"
  /\ CellDone(Append(result, [date |-> week_start + CurrentDay,
                              workout |-> parsed]))

\* parse_workout_text returns a Workout: it is appended with its date.
CellWorkout ==
  /\ AtCell
  /\ CurrentCell # <<>>
  /\ Appended(parse_workout_text(CurrentCell))

\* The day columns of the row are done.
EndRow ==
  /\ pc = "cell"
  /\ day_pos > Len(day_indices)
  /\ pc' = "row"
  /\ row_idx' = row_idx + 1
  /\ UNCHANGED <<cell_content, workout_name, parsed_lines, b, workout, arg, ret, written>>
  /\ UNCHANGED <<plan, start_date, day_indices, week_start, day_pos, result>>

\* return result
ReturnPlan ==
  /\ pc = "row"
  /\ row_idx = Len(plan.rows)
  /\ pc' = "done"
  /\ ret' = [type |-> "entries", entries |-> result]
  /\ UNCHANGED <<cell_content, workout_name, parsed_lines, b, workout, arg, written>>
  /\ UNCHANGED planVars

\* The most rows of a generated table.
MaxRows == 2

\* The start_date of the generated calls, a day number.
StartDay == 738000

\* A cell that parses to a Workout, one whose parse raises, one of another
\* sport.
GoodCell == CellText(Hdr_Intervals, <<Raw_run0>>)

FailingCell == CellText(Hdr_Intervals, <<Raw_zero0>>)

CyclingCell == CellText(Hdr_Cycling, <<Raw_run0>>)

\* Texts of a week column: '1', '3', 'x'.
WeekTexts == {<<"1">>, <<"3">>, <<"x">>}

\* Column lists: upper-case week column; 'Week' with day columns out of
\* order and in other cases; a lower-case 'week', which is no week column.
WideColumns ==
  { <<<<"W", "E", "E", "K">>,
       <<"M", "o", "n", "d", "a", "y">>,
       <<"S", "u", "n", "d", "a", "y">>>>,
    <<<<"W", "e", "e", "k">>,
       <<"s", "u", "n", "d", "a", "y">>,
       <<"M", "O", "N", "D", "A", "Y">>>>,
    <<<<"w", "e", "e", "k">>,
       <<"T", "u", "e", "s", "d", "a", "y">>,
       <<"F", "r", "i", "d", "a", "y">>>> }

\* Column lists: no week column; no week column and the day columns out
\* of order; no day column; a day name and a week column written with
\* spaces around them.
NarrowColumns ==
  { <<<<"M", "o", "n", "d", "a", "y">>,
       <<"W", "e", "d", "n", "e", "s", "d", "a", "y">>>>,
    <<<<"S", "u", "n", "d", "a", "y">>,
       <<"m", "o", "n", "d", "a", "y">>>>,
    <<<<"W", "E", "E", "K">>,
       <<"N", "o", "t", "e", "s">>>>,
    <<<<" ", "S", "a", "t", "u", "r", "d", "a", "y">>,
       <<"N", "o", "t", "e", "s", " ">>>> }

WideRows ==
  { <<w, c, d>> : w \in WeekTexts, c \in {<<>>, GoodCell, FailingCell},
                  d \in {GoodCell, CyclingCell} }

NarrowRows ==
  { <<c, d>> : c \in {<<>>, GoodCell, FailingCell}, d \in {GoodCell, CyclingCell} }

\* The table as read: df.columns are the names of the header.
Table(header, rows) == [header |-> header, columns |-> header, rows |-> rows]

Plans ==
  {Table(c, r) : c \in WideColumns, r \in ListsUpTo(WideRows, MaxRows)}
    \cup {Table(c, r) : c \in NarrowColumns, r \in ListsUpTo(NarrowRows, MaxRows)}

InitPlan ==
  /\ pc = "read"
  /\ cell_content = <<>>
  /\ workout_name = <<>>
  /\ parsed_lines = <<>>
  /\ b = Idle
  /\ workout = NoneValue
  /\ arg = <<>>
  /\ ret = NoneValue
  /\ written = NoneValue
  /\ plan \in Plans
  /\ start_date = StartDay
  /\ day_indices = <<>>
  /\ row_idx = 0
  /\ week_start = 0
  /\ day_pos = 0
  /\ result = <<>>

NextPlan ==
  \/ StripColumns
  \/ NoDayColumns
  \/ StartRows
  \/ NextRow
  \/ EmptyCell
  \/ CellFailed
  \/ CellNone
  \/ CellWorkout
  \/ EndRow
  \/ ReturnPlan

SpecPlan == InitPlan /\ [][NextPlan]_vars

(***************************************************************************)
(* Claims                                                                  *)
(***************************************************************************)

\* What a claim says of a step: its kind, step type, end condition and
\* target, and for a repeat group its count and its children in order.
RECURSIVE StepSummary(_)
StepSummary(step) ==
  IF step.type = "executable"
  THEN [type |-> "executable", step_type |-> step.step_type,
        end_condition |-> step.end_condition, target |-> step.target]
  ELSE [type |-> "repeat", iterations |-> step.iterations,
        steps |-> [k \in 1..Len(step.steps) |-> StepSummary(step.steps[k])]]

Summaries(steps) == [k \in 1..Len(steps) |-> StepSummary(steps[k])]

ExampleSteps ==
  << [type |-> "executable", step_type |-> WARMUP,
      end_condition |-> [type |-> "time", duration_seconds |-> 900],
      target |-> [type |-> "hr_zone", zone |-> 2]],
     [type |-> "repeat", iterations |-> 4,
      steps |-> << [type |-> "executable", step_type |-> INTERVAL,
                    end_condition |-> [type |-> "time", duration_seconds |-> 120],
                    target |-> [type |-> "hr_zone", zone |-> 4]],
                   [type |-> "executable", step_type |-> RECOVER,
                    end_condition |-> [type |-> "time", duration_seconds |-> 90],
                    target |-> [type |-> "hr_zone", zone |-> 1]] >>],
     [type |-> "executable", step_type |-> COOLDOWN,
      end_condition |-> [type |-> "time", duration_seconds |-> 600],
      target |-> [type |-> "hr_zone", zone |-> 1]] >>

\* C1: parse_workout_text on the example cell returns a Workout named
\* 'Intervals' whose top-level steps are, in order, Warmup (900 s, zone 2),
\* a RepeatStep of 4 iterations holding exactly Interval (120 s, zone 4) and
\* Recover (90 s, zone 1), and Cooldown (600 s, zone 1): the cooldown line,
\* back at the repeat's indent, is a sibling of the RepeatStep.
C1_ExampleParses ==
  (pc = "done" /\ cell_content = ExampleCell) =>
    /\ workout.type = "workout"
    /\ workout.name = Txt_Intervals
    /\ Summaries(workout.steps) = ExampleSteps

C1_Witness ==
  /\ pc = "done"
  /\ cell_content = ExampleCell
  /\ workout.type = "workout"
  /\ Len(workout.steps) = 3

\* The lines from index from up to, not including, index to (0-based).
LinesWithin(from, to) == {LineAt(parsed_lines, k) : k \in from..(to - 1)}

\* A call that has read up to index next has only read lines at or below
\* its own level of nesting.
RunOf(frame, next) ==
  /\ frame.start_index <= next
  /\ next <= Len(parsed_lines)
  /\ \A line \in LinesWithin(frame.start_index, next) :
       line.indent_level >= frame.expected_indent

\* The index a call returns is the end of the lines or the first line
\* above its level.
StopsAt(frame, next) ==
  \/ next = Len(parsed_lines)
  \/ LineAt(parsed_lines, next).indent_level < frame.expected_indent

\* C2: every call of _build_steps_recursive, the outermost one and each
\* recursive one, has at every moment read only lines of indent_level >=
\* its expected_indent, from its start_index on and within the list; when
\* it returns, its next_index is the length of the list or the index of a
\* line of indent_level < expected_indent, which it has not consumed.
C2_MaximalRun ==
  /\ b.status \in {"running", "returned"} =>
       \A d \in 1..Len(b.stack) : RunOf(b.stack[d], b.i)
  /\ Taken("return") => StopsAt(Top(b), b.i)
  /\ b.status = "returned" => StopsAt(b.stack[1], b.i)

\* A direct call with a positive start_index and expected_indent has
\* consumed a line and returned at a line above its level.
C2_Witness ==
  /\ b.status = "returned"
  /\ b.stack[1].expected_indent > 0
  /\ b.stack[1].start_index > 0
  /\ b.stack[1].start_index < b.i
  /\ b.i < Len(parsed_lines)
  /\ b.stack[1].steps # <<>>

\* No repeat group in the step, at any depth, has an empty list of children.
RECURSIVE NoEmptyRepeat(_)
NoEmptyRepeat(step) ==
  step.type = "repeat" =>
    /\ step.steps # <<>>
    /\ \A k \in 1..Len(step.steps) : NoEmptyRepeat(step.steps[k])

NoEmptyRepeats(steps) == \A k \in 1..Len(steps) : NoEmptyRepeat(steps[k])

\* Neither the steps built so far by any running call nor the returned
\* Workout hold a repeat group without children.
NoEmptyRepeatBuilt ==
  /\ \A d \in 1..Len(b.stack) : NoEmptyRepeats(b.stack[d].steps)
  /\ workout.type = "workout" => NoEmptyRepeats(workout.steps)

\* A recursive call that returns no nested step: the caller goes on, with
\* no exception, at the index the call returned and with the steps it had.
EmptyGroupDropped ==
  (Taken("return") /\ Len(b.stack) > 1 /\ Top(b).steps = <<>>) =>
    /\ b'.status = "running"
    /\ b'.i = b.i
    /\ b'.stack = SubSeq(b.stack, 1, Len(b.stack) - 1)

\* C3: the builder never produces a RepeatStep with zero children, at any
\* depth; when the lines under a repeat line yield no nested step the group
\* is dropped without error and the caller resumes at the index the
\* recursive call returned, its own steps untouched.
C3_NoEmptyRepeat == []NoEmptyRepeatBuilt /\ [][EmptyGroupDropped]_vars

\* The cell "- repeat: 4", "- run: 2:00": the group was dropped and the
\* following line at the repeat's indent is the Workout's only step.
C3_Witness ==
  /\ pc = "done"
  /\ cell_content = CellText(Hdr_Intervals, <<Raw_repeat0, Raw_run0>>)
  /\ workout.type = "workout"
  /\ Len(workout.steps) = 1
  /\ workout.steps[1].type = "executable"
  /\ workout.steps[1].step_type = INTERVAL

\* The last step built by the running call.
LastStep(bb) == Top(bb).steps[Len(Top(bb).steps)]

\* A note line is read and the step before it, at the same indent, is an
\* ExecutableStep.
NoteAfterExecutable ==
  /\ Taken("note")
  /\ Top(b).steps # <<>>
  /\ LastStep(b).type = "executable"

\* The description a step gets from a note with the given text.
Described(description, text) ==
  IF description = None \/ description = <<>>
  THEN text
  ELSE description \o <<"\n">> \o text

\* The pass over a note line after an ExecutableStep changes the step's
\* description, and nothing else of the steps built.
NoteAttached ==
  NoteAfterExecutable =>
    /\ b'.i = b.i + 1
    /\ b'.status = "running"
    /\ Len(b'.stack) = Len(b.stack)
    /\ Top(b').steps =
         [Top(b).steps EXCEPT ![Len(Top(b).steps)].description =
            Described(LastStep(b).description,
                      NoteText(LineAt(parsed_lines, b.i).value))]

\* The cell 'running: Intervals' with the given step lines.
CellHasLines(raws) == cell_content = CellText(Hdr_Intervals, raws)

\* The cells '- run: 2:00' with the notes "nice" and easy after it.
NoteExamples ==
  /\ (pc = "done" /\ CellHasLines(<<Raw_run0, Raw_note0>>)) =>
       workout.steps[1].description = Txt_nice
  /\ (pc = "done" /\ CellHasLines(<<Raw_run0, Raw_easy0>>)) =>
       workout.steps[1].description = Txt_easy
  /\ (pc = "done" /\ CellHasLines(<<Raw_run0, Raw_note0, Raw_easy0>>)) =>
       workout.steps[1].description = Txt_nice \o <<"\n">> \o Txt_easy
  /\ (pc = "done" /\ CellHasLines(<<Raw_run0, Raw_easy0, Raw_note0>>)) =>
       workout.steps[1].description = Txt_easy \o <<"\n">> \o Txt_nice

\* C4: a note line after an ExecutableStep at the same indent sets the
\* step's description to the note's quote-stripped text when the step has
\* no description text, and otherwise appends a newline and the text to it;
\* '- run: 2:00' then '- note: "nice"' gives the description 'nice', and
\* consecutive notes accumulate in line order.
C4_NoteDescription == [][NoteAttached]_vars /\ []NoteExamples

\* The cell '- run: 2:00', '- note: "nice"', '- note: easy' has been built
\* and its step carries both notes.
C4_Witness ==
  /\ pc = "done"
  /\ CellHasLines(<<Raw_run0, Raw_note0, Raw_easy0>>)
  /\ workout.type = "workout"
  /\ Len(workout.steps) = 1
  /\ workout.steps[1].description = Txt_nice \o <<"\n">> \o Txt_easy

\* The last element of a RepeatStep's steps list.
LastNested(step) == step.steps[Len(step.steps)]

\* A note line is read and the most recently built sibling is a RepeatStep.
NoteAfterRepeat ==
  /\ Taken("note")
  /\ Top(b).steps # <<>>
  /\ LastStep(b).type = "repeat"

\* After the pass, the last element of the RepeatStep's list carries the
\* note's text at the end of its description.
NoteOnLastChild ==
  /\ LastNested(LastStep(b')).type = "executable"
  /\ endswith(LastNested(LastStep(b')).description,
              NoteText(LineAt(parsed_lines, b.i).value))

\* C5 as stated: whatever kind of step the last nested child is, the note
\* is attached to its description.
C5_AsStated == [][NoteAfterRepeat => NoteOnLastChild]_vars

\* The pass over a note line after a RepeatStep changes the description of
\* the group's last nested step when that is an ExecutableStep, and nothing
\* at all when it is itself a RepeatStep.
RepeatNoteAttached ==
  NoteAfterRepeat =>
    /\ b'.i = b.i + 1
    /\ b'.status = "running"
    /\ Len(b'.stack) = Len(b.stack)
    /\ Top(b').steps =
         IF LastNested(LastStep(b)).type = "executable"
         THEN [Top(b).steps EXCEPT
                 ![Len(Top(b).steps)].steps[Len(LastStep(b).steps)].description =
                   Described(LastNested(LastStep(b)).description,
                             NoteText(LineAt(parsed_lines, b.i).value))]
         ELSE Top(b).steps

\* Cells with a note at the indent of a repeat group right after the group.
RepeatNoteExamples ==
  /\ (pc = "done" /\ CellHasLines(<<Raw_repeat0, Raw_recover1, Raw_note0>>)) =>
       /\ workout.steps[1].type = "repeat"
       /\ workout.steps[1].steps[1].description = Txt_nice
  /\ (pc = "done"
        /\ CellHasLines(<<Raw_repeat0, Raw_recover1, Raw_note0, Raw_easy0>>)) =>
       workout.steps[1].steps[1].description = Txt_nice \o <<"\n">> \o Txt_easy
  /\ (pc = "done"
        /\ CellHasLines(<<Raw_repeat0, Raw_recover1, Raw_recover1, Raw_note0>>)) =>
       /\ workout.steps[1].steps[1].description = None
       /\ workout.steps[1].steps[2].description = Txt_nice
  /\ (pc = "done"
        /\ CellHasLines(<<Raw_repeat0, Raw_repeat1, Raw_run2, Raw_note0>>)) =>
       /\ workout.steps[1].steps[1].type = "repeat"
       /\ workout.steps[1].steps[1].steps[1].description = Txt_jog

\* C5, amended: when a note line's most recently built sibling is a
\* RepeatStep, the note's text goes to the description of the last element
\* of the group's steps list if that element is an ExecutableStep, never to
\* the RepeatStep itself; if the last element is a RepeatStep the note is
\* dropped and no step changes.
C5_RepeatNote == [][RepeatNoteAttached]_vars /\ []RepeatNoteExamples

\* The cell '- repeat: 4', '  - recover: 1:30 @z1', '- note: "nice"',
\* '- note: easy' has been built: the group's last nested step carries both
\* notes.
C5_Witness ==
  /\ pc = "done"
  /\ CellHasLines(<<Raw_repeat0, Raw_recover1, Raw_note0, Raw_easy0>>)
  /\ workout.type = "workout"
  /\ workout.steps[1].type = "repeat"
  /\ LastNested(workout.steps[1]).description =
       Txt_nice \o <<"\n">> \o Txt_easy

\* The text of a value before its first '@', trimmed.
BeforeAt(value) ==
  IF Contains(strip(value), "@")
  THEN strip(SplitOnce(strip(value), "@")[1])
  ELSE strip(value)

\* The kind of end condition the claim gives a text.
StatedEndKind(t) ==
  IF lower(t) = Txt_lap_button THEN "lap_button"
  ELSE IF MatchTime(t, 3) THEN "time"
  ELSE IF MatchDistance(lower(t)) THEN "distance"
  ELSE "lap_button"

\* C6: parse_end_condition_and_target never raises; for every value text
\* it returns a pair whose end condition is LapButtonEndCondition for
\* 'lap-button' in any case, TimeEndCondition for 1-3 digits, ':', 2 digits,
\* DistanceEndCondition for a number and a distance unit, and
\* LapButtonEndCondition for every other text before the first '@'.
C6_NeverRaises ==
  pc = "done" =>
    /\ ret.type = "pair"
    /\ ret.end_condition.type = StatedEndKind(BeforeAt(arg))

\* The kind of target the claim gives a trimmed text.
StatedTargetKind(t) ==
  IF MatchZone(lower(t)) THEN "hr_zone"
  ELSE IF MatchPaceTarget(t) THEN "pace"
  ELSE "no_target"

\* C7: parse_target is total: z1..z5 in any case gives HeartRateZoneTarget
\* with that zone number, a text matching the pace-range pattern gives a
\* PaceTarget, every other text gives NoTarget; it never raises.
C7_TargetTotal ==
  pc = "done" =>
    /\ ret.type = StatedTargetKind(strip(arg))
    /\ ret.type = "hr_zone" => ret.zone = DigitVal(strip(arg)[2])

\* The indexes (1-based) of the lines with a keyword outside the table.
UnknownLines == {k \in 1..Len(parsed_lines) : ~InStepTypeMap(parsed_lines[k].keyword)}

\* The list without its k-th line.
Without(lines, k) == SubSeq(lines, 1, k - 1) \o SubSeq(lines, k + 1, Len(lines))

\* What parse_workout_text returns for the cell without its k-th step line.
WorkoutWithout(k) ==
  FinishWorkout(workout_name, build_step_tree(Without(parsed_lines, k)))

\* The builder run from state bb until it first reads the line of index k
\* (0-based), or stops before.
RECURSIVE RunTo(_, _, _)
RunTo(lines, bb, k) ==
  IF bb.status # "running" \/ bb.i >= k THEN bb
  ELSE RunTo(lines, BuildPass(lines, bb), k)

\* The call that is running in state bb reads the line at its own level or
\* deeper.
NotBelow(line, bb) ==
  bb.status = "running" /\ line.indent_level >= Top(bb).expected_indent

\* The k-th line (1-based) is not indented less than the call that first
\* reads it expects.
ReadAtLevel(k) ==
  NotBelow(parsed_lines[k], RunTo(parsed_lines, BuildStart(0, 0), k - 1))

\* C8 as stated: a line with an unknown keyword leaves the cell's result
\* what it is without that line, wherever the line stands.
C8_AsStated ==
  pc = "done" => \A k \in UnknownLines : workout = WorkoutWithout(k)

\* The else branch reads a line with an unknown keyword: exactly that line
\* is consumed, nothing is appended and nothing is raised.
UnknownSkipped ==
  (Taken("step") /\ (b.i + 1) \in UnknownLines) => b' = SkipLine(b)

\* The result is the one of the cell without the unknown line.
AsIfAbsent ==
  pc = "done" =>
    \A k \in UnknownLines : ReadAtLevel(k) => workout = WorkoutWithout(k)

\* C8, amended: a line with an unknown keyword contributes no step and
\* does not abort the cell: the call that reads it in its else branch
\* consumes exactly that line and appends nothing; and when the line is not
\* indented less than the call that first reads it expects, the cell's
\* result is the result of the cell without that line.
C8_UnknownKeyword == [][UnknownSkipped]_vars /\ []AsIfAbsent

\* The cell '- repeat: 4', '  - bike: 60:00', '  - recover: 1:30 @z1' has
\* been built: the unknown line, read inside the group, left the group with
\* its one step.
C8_Witness ==
  /\ pc = "done"
  /\ CellHasLines(<<Raw_repeat0, Raw_bike1, Raw_recover1>>)
  /\ ReadAtLevel(2)
  /\ workout.type = "workout"
  /\ workout = WorkoutWithout(2)
  /\ Len(workout.steps[1].steps) = 1

\* The first line of the trimmed cell.
FirstLine(cell) == split(strip(cell), "\n")[1]

\* The cell's header has a sport keyword: text before a ':'.
HasSport(cell) == strip(cell) # <<>> /\ Contains(FirstLine(cell), ":")

\* The header's sport keyword, trimmed and lowercased.
HeaderSport(cell) == lower(strip(SplitOnce(FirstLine(cell), ":")[1]))

\* The step lines of the cell that the tokenizer keeps.
KeptLines(cell) == ParseLines(Tail(split(strip(cell), "\n")))

\* The cell was rejected: no workout, no line tokenized, the builder never
\* called.
Rejected == workout = NoneValue /\ b = Idle /\ parsed_lines = <<>>

\* The cell was handed to the builder with the step lines the tokenizer
\* keeps.
Built(cell) ==
  KeptLines(cell) # <<>> =>
    /\ b.status \in {"returned", "raised"}
    /\ parsed_lines = KeptLines(cell)

\* C9: only the header sport 'running' (trimmed, in any case) is accepted:
\* when parse_workout_text has returned on a cell with any other header
\* sport, the result is None whatever the step lines and the builder was
\* never called; a cell with the sport 'running' and at least one step line
\* was handed to the builder.
C9_RunningOnly ==
  (pc = "done" /\ HasSport(cell_content)) =>
    IF HeaderSport(cell_content) = Txt_running
    THEN Built(cell_content)
    ELSE Rejected

\* The cell 'cycling: Bike Ride' with two well-formed run lines has been
\* parsed: no workout, no line built.
C9_Witness ==
  /\ pc = "done"
  /\ cell_content = CellText(Hdr_Cycling, <<Raw_run0, Raw_run0>>)
  /\ workout = NoneValue
  /\ b = Idle

\* The row being read and the text of its week column.
CurrentRow == plan.rows[row_idx + 1]

WeekText == CurrentRow[ColumnAt(plan.columns, week_col(plan.columns))]

\* The offset of the column of the cell being read: 0 for a column named
\* Monday (in any case) up to 6 for Sunday.
DayOffset ==
  CHOOSE k \in 0..6 :
    lower(plan.columns[day_indices[day_pos].col]) = lower(DAY_COLUMNS[k + 1])

\* An entry is appended to the result.
EntryAppended == Len(result') = Len(result) + 1

\* The date of the entry appended.
AppendedDate == result'[Len(result')].date

\* C10 as stated: the week number is the row's week-column value whenever
\* the table has a week column, and the 1-based row position otherwise.
C10_AsStated ==
  [][EntryAppended =>
       /\ has_week_col(plan.columns) => IsIntText(WeekText)
       /\ AppendedDate =
            start_date + DayOffset
              + 7 * ((IF has_week_col(plan.columns)
                      THEN IntOfText(WeekText)
                      ELSE row_idx + 1) - 1)]_vars

\* The week number of the row being read: the integer of its week column,
\* or its 1-based position when there is no week column or the text of the
\* week column is no integer.
StatedWeek ==
  IF has_week_col(plan.columns) /\ IsIntText(WeekText)
  THEN IntOfText(WeekText)
  ELSE row_idx + 1

\* C10, amended: every entry appended by parse_training_plan has the date
\* start_date + 7 * (week_number - 1) + day_offset, with day_offset 0 for
\* Monday up to 6 for Sunday of the cell's column and week_number the
\* integer in the row's week column, or the 1-based row position when the
\* table has no week column or the row's week text is no integer; the
\* returned list is the list of the entries appended.
C10_EntryDate ==
  /\ [][EntryAppended =>
          AppendedDate = start_date + 7 * (StatedWeek - 1) + DayOffset]_vars
  /\ [][Len(result') >= Len(result)
          /\ SubSeq(result', 1, Len(result)) = result]_vars
  /\ [](pc = "done" /\ ret.type = "entries" => ret.entries = result)

\* The table WEEK, Monday, Sunday with the rows ('3', cell, cell) and
\* ('x', '', cell) has been parsed: week 3 for the first row, the row
\* position 2 for the second.
C10_Witness ==
  /\ pc = "done"
  /\ ret.type = "entries"
  /\ plan.columns[1] = Txt_WEEK
  /\ plan.rows = << <<<<"3">>, GoodCell, GoodCell>>, <<<<"x">>, <<>>, GoodCell>> >>
  /\ Len(ret.entries) = 3
  /\ ret.entries[1].date = start_date + 14
  /\ ret.entries[2].date = start_date + 20
  /\ ret.entries[3].date = start_date + 13

\* The text of the row's cell in the column of the day.
CellOf(columns, row, day_idx) == strip(row[day_col_map(columns, day_idx)])

\* The row's cell of that day is non-blank and parses to a Workout.
CellSucceeds(columns, row, day_idx) ==
  /\ HasDay(columns, day_idx)
  /\ CellOf(columns, row, day_idx) # <<>>
  /\ parse_workout_text(CellOf(columns, row, day_idx)).type = "workout"

\* The (date, Workout) pair of a cell, from the cell alone.
CellEntry(columns, row, idx, day_idx) ==
  [date |-> WeekStart(start_date, WeekNum(columns, row, idx)) + day_idx,
   workout |-> parse_workout_text(CellOf(columns, row, day_idx))]

\* The days of a row whose cells succeed, Monday first.
DaysSucceeding(columns, row) ==
  SelectSeq(<<0, 1, 2, 3, 4, 5, 6>>,
            LAMBDA day_idx : CellSucceeds(columns, row, day_idx))

EntriesOfDays(columns, row, idx, days) ==
  [k \in 1..Len(days) |-> CellEntry(columns, row, idx, days[k])]

\* The pairs of one row, in the traversal order of its day columns.
RowEntries(columns, row, idx) ==
  EntriesOfDays(columns, row, idx, DaysSucceeding(columns, row))

\* The pairs of the first n rows, row after row.
RECURSIVE PlanEntries(_, _)
PlanEntries(table, n) ==
  IF n = 0 THEN <<>>
  ELSE PlanEntries(table, n - 1)
         \o RowEntries(table.columns, table.rows[n], n - 1)

\* A cell of the table whose parse raises, or gives None.
SomeCell(table, results) ==
  \E r \in 1..Len(table.rows) : \E d \in 0..6 :
    /\ HasDay(table.columns, d)
    /\ CellOf(table.columns, table.rows[r], d) # <<>>
    /\ parse_workout_text(CellOf(table.columns, table.rows[r], d)).type \in results

\* C11: a cell whose parse raises or yields no workout is skipped alone:
\* with at least one day column the plan parse returns, and what it returns
\* is exactly the (date, Workout) pairs of the cells that parse to a
\* Workout, each pair a function of its own cell only, row after row and
\* within a row in the traversal order of the day columns.
C11_FailedCellSkipped ==
  (pc = "done" /\ DaysFound(plan.columns) # <<>>) =>
    ret = [type |-> "entries", entries |-> PlanEntries(plan, Len(plan.rows))]

\* A plan parse has returned entries from a table holding a cell whose parse
\* raised and a cell that gave None, the failing cell followed by a cell of
\* the same row that was appended.
C11_Witness ==
  /\ pc = "done"
  /\ ret.type = "entries"
  /\ SomeCell(plan, {"raise"})
  /\ SomeCell(plan, {"none"})
  /\ Len(plan.columns) = 3
  /\ \E r \in 1..Len(plan.rows) :
       /\ plan.rows[r][2] = FailingCell
       /\ plan.rows[r][3] = GoodCell
       /\ RowEntries(plan.columns, plan.rows[r], r - 1) # <<>>

\* One of the names equals one of the seven day names, letter case aside.
SomeDayName(names) ==
  \E i \in 1..Len(names) : \E d \in 1..Len(DAY_COLUMNS) :
    lower(names[i]) = lower(DAY_COLUMNS[d])

\* The names without the whitespace around them.
Trimmed(names) == [i \in 1..Len(names) |-> strip(names[i])]

\* The plan parse ended with a ParserError and no list of entries.
FailedHard == ret = Raise("ParserError")

\* C12 as stated: parse_training_plan fails with a ParserError exactly when
\* none of the document's column names equals a day name case-insensitively.
C12_AsStated ==
  pc = "done" => (FailedHard <=> ~SomeDayName(plan.header))

\* C12: parse_training_plan fails hard with a ParserError, returning no
\* partial result, exactly when none of the document's column names, with
\* the whitespace around it removed, equals one of the seven day names
\* case-insensitively; with such a column it returns a list of entries.
C12_NoDayColumn ==
  pc = "done" =>
    IF SomeDayName(Trimmed(plan.header))
    THEN ret.type = "entries"
    ELSE FailedHard /\ result = <<>>

\* A plan parse failed hard on a table with rows of parseable cells but no
\* day column.
C12_Witness ==
  /\ pc = "done"
  /\ FailedHard
  /\ ~SomeDayName(Trimmed(plan.header))
  /\ \E r \in 1..Len(plan.rows) : plan.rows[r][2] = GoodCell

\* C13: for every valid pace-range input the pair returned by
\* parse_pace_to_meters_per_second has min_speed <= max_speed, whichever of
\* the two times is written first and whatever the mpk/mpm suffix.
C13_MinNotAboveMax ==
  (pc = "done" /\ ret.type = "speeds") =>
    ~FracLess(ret.max_speed_mps, ret.min_speed_mps)

\* The text is the pace range of the two times in that order.
IsRange(text, first, second) ==
  \E sep \in PaceSeparators : \E suffix \in PaceSuffixes :
    text = first \o sep \o second \o suffix

\* The same pace range with the two times in the other order.
OtherOrder(text) ==
  CHOOSE other \in TargetTexts :
    \E first \in PaceTimes : \E second \in PaceTimes :
      \E sep \in PaceSeparators : \E suffix \in PaceSuffixes :
        /\ text = first \o sep \o second \o suffix
        /\ other = second \o sep \o first \o suffix

IsPaceRange(text) ==
  \E first \in PaceTimes : \E second \in PaceTimes : IsRange(text, first, second)

\* The two speeds of a pair, as a set.
Speeds(pair) == {pair.min_speed_mps, pair.max_speed_mps}

\* C14: every constructed PaceTarget has 0 < min_speed_mps <= max_speed_mps
\* and holds the two speeds the caller supplied, swapped when they came
\* reversed; so parse_target gives the same PaceTarget for a pace range
\* whichever of its two times is written first.
C14_PaceTargetOrdered ==
  (pc = "done" /\ IsPaceRange(arg)) =>
    /\ ret = parse_target(OtherOrder(arg))
    /\ ret.type = "pace" =>
         /\ FracPositive(ret.min_speed_mps)
         /\ ~FracLess(ret.max_speed_mps, ret.min_speed_mps)
         /\ Speeds(ret) = Speeds(parse_pace_to_meters_per_second(arg))

\* parse_target has built a PaceTarget from a range written faster time
\* first, whose speeds came to the constructor reversed.
C14_Witness ==
  /\ pc = "done"
  /\ IsRange(arg, <<"4", ":", "3", "0">>, <<"5", ":", "0", "0">>)
  /\ ret.type = "pace"
  /\ ret.max_speed_mps = parse_pace_to_meters_per_second(arg).min_speed_mps
  /\ ret.min_speed_mps # ret.max_speed_mps

\* The duration of the minutes and seconds the text was written from.
WrittenDuration ==
  IF written.minutes <= 999 /\ written.seconds <= 59
  THEN [type |-> "int", value |-> written.minutes * 60 + written.seconds]
  ELSE Raise("ValueError")

\* The text is exactly 'm:ss' or 'mm:ss' of the minutes and seconds.
ExactlyWritten ==
  /\ written # NoneValue
  /\ arg \in {TimeText(written.minutes, written.seconds),
              PaddedTimeText(written.minutes, written.seconds)}

IsLapButton == lower(arg) = Txt_lap_button

\* C15 as stated: 'm:ss' with m in 0..999 and s in 0..59 gives m*60+s, a
\* seconds field of 60 or more or any other shape is an error, and
\* 'lap-button' in any letter case gives the no-duration value.
C15_AsStated ==
  pc = "done" =>
    ret = IF IsLapButton THEN NoneValue
          ELSE IF ExactlyWritten THEN WrittenDuration
          ELSE Raise("ValueError")

\* C15: for all m in 0..999 and s in 0..59 parse_duration_to_seconds on
\* the text 'm:ss' (s written with two digits), with or without whitespace
\* around it, returns exactly m*60+s; a seconds field of 60 or more is an
\* error, and so is every text that without the whitespace around it has
\* another shape; 'lap-button' in any letter case, with no whitespace around
\* it, returns the no-duration value.
C15_DurationRoundTrip ==
  pc = "done" =>
    ret = IF IsLapButton THEN NoneValue
          ELSE IF written # NoneValue THEN WrittenDuration
          ELSE Raise("ValueError")

\* A three-digit minutes field with 59 seconds has been parsed to its
\* seconds.
C15_Witness ==
  /\ pc = "done"
  /\ written = [minutes |-> 999, seconds |-> 59]
  /\ arg = <<"9", "9", "9", ":", "5", "9">>
  /\ ret = [type |-> "int", value |-> 59999]

\* The documents are those of the steps, one per step and in order, each
\* numbered by its 0-based place among its siblings, a group's children
\* again so inside the group.
RECURSIVE ShapeKept(_, _)
ShapeKept(documents, steps) ==
  /\ Len(documents) = Len(steps)
  /\ \A i \in 1..Len(steps) :
       /\ documents[i].stepOrder = i - 1
       /\ IF steps[i].type = "repeat"
          THEN /\ documents[i].type = "RepeatGroupDTO"
               /\ documents[i].numberOfIterations = steps[i].iterations
               /\ ShapeKept(documents[i].workoutSteps, steps[i].steps)
          ELSE /\ documents[i].type = "ExecutableStepDTO"
               /\ documents[i] = ExecutableStep_to_garmin_dict(steps[i], i - 1)

\* A Workout has been rendered.
WorkoutRendered == pc = "done" /\ workout # NoneValue

\* C16: rendering preserves the tree shape and numbers siblings from 0:
\* Workout.to_garmin_dict gives exactly one segment, of segmentOrder 1,
\* whose workoutSteps holds one document per top-level step, in order, with
\* stepOrder the step's 0-based position; every RepeatGroupDTO's
\* workoutSteps holds one document per child, in order, with stepOrder the
\* child's 0-based position in that group, whatever the order of the group.
C16_ShapeAndOrder ==
  WorkoutRendered =>
    /\ Len(ret.workoutSegments) = 1
    /\ ret.workoutSegments[1].segmentOrder = 1
    /\ ShapeKept(ret.workoutSegments[1].workoutSteps, workout.steps)

\* A Workout whose second step is a group nested two deep has been
\* rendered: the group has stepOrder 1, its second child stepOrder 1, and
\* that child's first child, itself a group, stepOrder 0.
C16_Witness ==
  /\ WorkoutRendered
  /\ workout.steps = <<Step_run, Group_last>>
  /\ ret.workoutSegments[1].workoutSteps[2].stepOrder = 1
  /\ ret.workoutSegments[1].workoutSteps[2].workoutSteps[2].stepOrder = 1
  /\ ret.workoutSegments[1].workoutSteps[2].workoutSteps[2].workoutSteps[1].type
       = "RepeatGroupDTO"
  /\ ret.workoutSegments[1].workoutSteps[2].workoutSteps[2].workoutSteps[1].stepOrder
       = 0

\* An ExecutableStep has been rendered on its own.
StepRendered == pc = "done" /\ workout = NoneValue

HasText(step) == step.description # None /\ step.description # <<>>

\* The description the claim gives the rendered step.
StatedDescription(step) ==
  IF step.is_cross_training
  THEN IF HasText(step)
       THEN <<"[", "C", "R", "O", "S", "S", " ", "T", "R", "A", "I", "N", "I",
              "N", "G", "]", " ">> \o step.description
       ELSE <<"[", "C", "R", "O", "S", "S", " ", "T", "R", "A", "I", "N", "I",
              "N", "G", "]">>
  ELSE IF HasText(step) THEN step.description ELSE None

\* C18: the rendered description of an ExecutableStep is None when the step
\* has no description text and is not cross-training, the description
\* unchanged when it is not cross-training, '[CROSS TRAINING]' alone when it
\* is cross-training without text, and '[CROSS TRAINING] ' followed by the
\* description when it is cross-training with text; rendering leaves the
\* step's stored description as it was.
C18_RenderedDescription ==
  [][RenderStep =>
       /\ ret'.description = StatedDescription(arg.self)
       /\ arg'.self.description = arg.self.description]_vars

\* A cross-training step with the note 'nice' has been rendered with the
\* prefix, a space and the note.
C18_Witness ==
  /\ StepRendered
  /\ arg.self.is_cross_training
  /\ arg.self.description = Txt_nice
  /\ ret.description =
       <<"[", "C", "R", "O", "S", "S", " ", "T", "R", "A", "I", "N", "I", "N",
         "G", "]", " ", "n", "i", "c", "e">>

RECURSIVE Gcd(_, _)
Gcd(m, n) == IF n = 0 THEN m ELSE Gcd(n, m % n)

\* Two fractions are the same number.
SameNumber(x, y) ==
  /\ x.num \div Gcd(x.num, x.den) = y.num \div Gcd(y.num, y.den)
  /\ x.den \div Gcd(x.num, x.den) = y.den \div Gcd(y.num, y.den)

SameEndCondition(x, y) ==
  /\ x.type = y.type
  /\ x.type = "time" => x.duration_seconds = y.duration_seconds
  /\ x.type = "distance" => SameNumber(x.distance_meters, y.distance_meters)

\* Same step types, order, nesting, iteration counts, end conditions,
\* targets and descriptions.
RECURSIVE SameSteps(_, _)
SameSteps(xs, ys) ==
  /\ Len(xs) = Len(ys)
  /\ \A k \in 1..Len(xs) :
       /\ xs[k].type = ys[k].type
       /\ xs[k].step_type = ys[k].step_type
       /\ IF xs[k].type = "repeat"
          THEN /\ xs[k].iterations = ys[k].iterations
               /\ SameSteps(xs[k].steps, ys[k].steps)
          ELSE /\ SameEndCondition(xs[k].end_condition, ys[k].end_condition)
               /\ xs[k].target = ys[k].target
               /\ xs[k].is_cross_training = ys[k].is_cross_training
               /\ xs[k].description = ys[k].description

\* The text fits on the line of its step as it is: no line break in it and
\* no whitespace at its ends.
OnOneLine(description) ==
  \/ description = None
  \/ /\ ~Contains(description, "\n")
     /\ strip(description) = description

RECURSIVE AllOnOneLine(_)
AllOnOneLine(steps) ==
  \A k \in 1..Len(steps) :
    IF steps[k].type = "repeat"
    THEN AllOnOneLine(steps[k].steps)
    ELSE OnOneLine(steps[k].description)

\* The cell text written back from a built Workout has been parsed.
Reparsed == pc = "done" /\ workout.type = "workout"

RebuiltEqual == ret.type = "workout" /\ SameSteps(ret.steps, workout.steps)

RECURSIVE LeadingCount(_, _)
LeadingCount(text, chars) ==
  IF text # <<>> /\ text[1] \in chars
  THEN 1 + LeadingCount(Tail(text), chars)
  ELSE 0

IsBlank(text) == LeadingCount(text, Whitespace) = Len(text)

\* The text without one leading '- ' or '-'.
WithoutMarker(text) ==
  IF text # <<>> /\ text[1] = "-"
  THEN IF Len(text) >= 2 /\ text[2] = " "
       THEN SubSeq(text, 3, Len(text))
       ELSE Tail(text)
  ELSE text

\* The line after removing leading whitespace and the marker.
StatedContent(text) ==
  WithoutMarker(SubSeq(text, LeadingCount(text, Whitespace) + 1, Len(text)))

\* Keyword, value and notes of the content as the claim gives them.
StatedFields(before, remainder) ==
  [keyword |-> lower(strip(before)),
   value |-> IF Contains(remainder, ";")
             THEN strip(SplitOnce(remainder, ";")[1])
             ELSE strip(remainder),
   notes |-> IF Contains(remainder, ";")
             THEN strip(SplitOnce(remainder, ";")[2])
             ELSE None]

FieldsOf(line) == [keyword |-> line.keyword, value |-> line.value, notes |-> line.notes]

\* What the claim says of the line but for its indent level.
StatedLine(text, parsed) ==
  IF IsBlank(text) \/ ~Contains(text, ":")
  THEN parsed = NoneValue
  ELSE /\ parsed.type = "line"
       /\ FieldsOf(parsed) =
            StatedFields(SplitOnce(StatedContent(text), ":")[1],
                         SplitOnce(StatedContent(text), ":")[2])

\* The result is a line of the indent level counted over the characters.
IndentIs(text, parsed, chars) ==
  parsed # NoneValue => parsed.indent_level = LeadingCount(text, chars) \div 2

\* C20 as stated: parse_line returns null for a blank line and for a line
\* with no ':'; otherwise indent_level is the number of leading spaces
\* divided by 2 rounded down, and keyword, value and notes are those of the
\* tokenizer algorithm.
C20_AsStated ==
  pc = "done" => StatedLine(arg, ret) /\ IndentIs(arg, ret, {" "})

\* What get_indent_level computes in place of the stated count: the number
\* of leading whitespace characters (spaces, tabs and line breaks alike)
\* divided by 2 rounded down; the other fields are as C20 states them.
C20_Tokenizer ==
  pc = "done" => StatedLine(arg, ret) /\ IndentIs(arg, ret, Whitespace)

\* A line of three leading spaces, a marker, a keyword in capitals with a
\* blank before the ':', a target and a note has been tokenized.
C20_Witness ==
  /\ pc = "done"
  /\ arg = <<" ", " ", " ", "-", " ", "R", "u", "n", " ", ":", " ", "2", ":",
             "0", "0", " ", "@", "z", "4", ";", " ", "K", "e", "e", "p", " ",
             "i", "t", " ", "e", "a", "s", "y", " ">>
  /\ ret.indent_level = 1
  /\ ret.keyword = Txt_run
  /\ ret.value = <<"2", ":", "0", "0", " ", "@", "z", "4">>
  /\ ret.notes = <<"K", "e", "e", "p", " ", "i", "t", " ", "e", "a", "s", "y">>

\* The call that is running in state bb reads the line above its level.
Above(line, bb) ==
  bb.status = "running" /\ line.indent_level > Top(bb).expected_indent

\* The indexes (1-based) of the lines indented deeper than the call that
\* first reads them expects.
OverIndentedLines ==
  {k \in 1..Len(parsed_lines) :
     Above(parsed_lines[k], RunTo(parsed_lines, BuildStart(0, 0), k - 1))}

\* The loop reads a line with indent_level > expected_indent: the index
\* advances by one, no call starts or ends, and no call's steps change.
OverIndentSkipped ==
  (/\ pc = "build"
   /\ b.status = "running"
   /\ b.i < Len(parsed_lines)
   /\ LineAt(parsed_lines, b.i).indent_level > Top(b).expected_indent) =>
    /\ b'.i = b.i + 1
    /\ b'.stack = b.stack
    /\ b'.status = "running"

\* The result is the one of the cell without the over-indented line.
OverIndentAbsent ==
  pc = "done" => \A k \in OverIndentedLines : workout = WorkoutWithout(k)

\* C21: a line whose indent_level is greater than the expected_indent of
\* the running call is skipped alone: the builder advances by exactly one
\* line, builds no step, starts no recursive call and keeps its
\* expected_indent; the cell's result is the result of the cell without
\* that line.
C21_OverIndentSkipped == [][OverIndentSkipped]_vars /\ []OverIndentAbsent

\* The cell '- run: 2:00', '    - run: 400m; jog', '- repeat: 4',
\* '  - recover: 1:30 @z1' has been built: the second line was read at
\* level 0 and left the run and the group as they are without it.
C21_Witness ==
  /\ pc = "done"
  /\ CellHasLines(<<Raw_run0, Raw_run2, Raw_repeat0, Raw_recover1>>)
  /\ OverIndentedLines = {2}
  /\ workout.type = "workout"
  /\ Len(workout.steps) = 2
  /\ workout = WorkoutWithout(2)

\* The value of a repeat line is a count a RepeatStep accepts: an integer
\* of at least 1.
ValidCount(value) == IsIntText(value) /\ IntOfText(value) >= 1

\* The loop reads, at its own level, a repeat line with an invalid count.
ReadsInvalidRepeat ==
  /\ pc = "build"
  /\ b.status = "running"
  /\ b.i < Len(parsed_lines)
  /\ LineAt(parsed_lines, b.i).indent_level = Top(b).expected_indent
  /\ LineAt(parsed_lines, b.i).keyword = Txt_repeat
  /\ ~ValidCount(LineAt(parsed_lines, b.i).value)

\* The line alone is consumed: no call starts, no step is added.
LineSkipped ==
  /\ b'.i = b.i + 1
  /\ b'.stack = b.stack
  /\ b'.status = "running"

\* No exception leaves the builder or parse_workout_text.
NothingRaised == b.status # "raised" /\ ~IsRaise(workout)

\* C22 as stated: a repeat line with an invalid repeat count is skipped
\* alone -- the index advances by one, no RepeatStep is built, no call is
\* made for expected_indent + 1 -- and the cell is built without raising.
C22_AsStated == [][ReadsInvalidRepeat => LineSkipped]_vars /\ []NothingRaised

\* The part of C22 the code keeps: a repeat line whose count int() rejects
\* is skipped alone.
NonIntegerRepeatSkipped ==
  [][(ReadsInvalidRepeat /\ ~IsIntText(LineAt(parsed_lines, b.i).value))
       => LineSkipped]_vars

\* The keywords parse_step drops although they are in the table.
DroppedKeywords == {Txt_repeat, Txt_note}

\* The step type the table gives a keyword that makes a step.
StatedStepType(keyword) ==
  CASE keyword = Txt_warmup -> WARMUP
    [] keyword = Txt_cooldown -> COOLDOWN
    [] keyword \in {Txt_run, Txt_interval, Txt_go, Txt_other, Txt_stair} -> INTERVAL
    [] keyword \in {Txt_recover, Txt_recovery} -> RECOVER
    [] keyword = Txt_rest -> REST
    [] OTHER -> 0

\* The result for a line of the keyword, as the claim gives it.
StatedStep(keyword, step) ==
  IF keyword \in DroppedKeywords \/ StatedStepType(keyword) = 0
  THEN step = NoneValue
  ELSE /\ step.type = "executable"
       /\ step.step_type = StatedStepType(keyword)
       /\ step.is_cross_training = (keyword \in {Txt_other, Txt_stair})

\* C23 as stated: parse_step returns null for a line whose keyword is
\* 'repeat', 'note' or not in the table; for every other keyword it returns
\* an ExecutableStep with the table's step type, cross-training if and only
\* if the keyword is 'other' or 'stair'.
C23_AsStated == pc = "done" => StatedStep(arg.keyword, ret)

\* The part of C23 the code keeps: whenever parse_step returns, it returns
\* what the claim states for the keyword.
ReturnedStepAsStated ==
  (pc = "done" /\ ~IsRaise(ret)) => StatedStep(arg.keyword, ret)

\* The loop reads, at its own level, a note line while the running call
\* has built no step.
ReadsOrphanNote ==
  /\ pc = "build"
  /\ b.status = "running"
  /\ b.i < Len(parsed_lines)
  /\ LineAt(parsed_lines, b.i).indent_level = Top(b).expected_indent
  /\ LineAt(parsed_lines, b.i).keyword = Txt_note
  /\ Top(b).steps = <<>>

\* The steps of every running call, the outermost first.
StepsOfCalls(bb) == [d \in 1..Len(bb.stack) |-> bb.stack[d].steps]

\* C24: a note line read by a call that has built no step is dropped: the
\* steps of no call change, those of the callers included, and the builder
\* goes on with the next line.
C24_OrphanNoteDropped ==
  [][ReadsOrphanNote =>
       /\ StepsOfCalls(b') = StepsOfCalls(b)
       /\ b'.i = b.i + 1
       /\ b'.status = "running"]_vars

\* The cell '- run: 2:00', '- repeat: 4', '  - note: easy',
\* '  - recover: 1:30 @z1' has been built: the note, first in its group,
\* is in no description.
C24_Witness ==
  /\ pc = "done"
  /\ CellHasLines(<<Raw_run0, Raw_repeat0, Raw_easy1, Raw_recover1>>)
  /\ workout.type = "workout"
  /\ workout.steps[1].description = None
  /\ workout.steps[2].steps[1].description = None

\* C25 as stated: for every cell parse_workout_text returns a Workout or
\* null and never raises, the lines after a failing line being built.
C25_TotalFunction ==
  pc = "done" => workout.type \in {"workout", "none"}

\* The part of C25 the code keeps: the failures it handles itself (unknown
\* keyword, count int() rejects, line indented too deep, note without a
\* step before it) consume one line and leave the builder running.
HandledFailure ==
  /\ pc = "build"
  /\ b.status = "running"
  /\ b.i < Len(parsed_lines)
  /\ LineAt(parsed_lines, b.i).indent_level >= Top(b).expected_indent
  /\ \/ LineAt(parsed_lines, b.i).indent_level > Top(b).expected_indent
     \/ ~InStepTypeMap(LineAt(parsed_lines, b.i).keyword)
     \/ /\ LineAt(parsed_lines, b.i).keyword = Txt_repeat
        /\ ~IsIntText(LineAt(parsed_lines, b.i).value)
     \/ /\ LineAt(parsed_lines, b.i).keyword = Txt_note
        /\ Top(b).steps = <<>>

HandledFailuresLocal ==
  [][HandledFailure =>
       /\ StepsOfCalls(b') = StepsOfCalls(b)
       /\ b'.i = b.i + 1
       /\ b'.status = "running"]_vars

\* The end condition satisfies the constraint of its kind.
ValidEndCondition(end_condition) ==
  /\ end_condition.type = "time" => end_condition.duration_seconds > 0
  /\ end_condition.type = "distance" =>
       end_condition.distance_meters.num > 0 /\ end_condition.distance_meters.den > 0

ValidTarget(target) ==
  target.type = "hr_zone" => target.zone \in 1..5

\* The step and, for a repeat group, every step below it satisfy the
\* constraints of the data model.
RECURSIVE ValidStep(_)
ValidStep(step) ==
  IF step.type = "repeat"
  THEN /\ step.iterations >= 1
       /\ Len(step.steps) >= 1
       /\ \A k \in 1..Len(step.steps) : ValidStep(step.steps[k])
  ELSE /\ step.type = "executable"
       /\ ValidEndCondition(step.end_condition)
       /\ ValidTarget(step.target)

\* The name written after the ':' of the header.
HeaderName(cell) == strip(SplitOnce(FirstLine(cell), ":")[2])

ValidName(cell, name) ==
  /\ Len(name) \in 1..255
  /\ name = IF HeaderName(cell) = <<>> THEN Txt_Workout ELSE HeaderName(cell)

\* C26: a Workout returned by parse_workout_text has a name of 1 to 255
\* characters ('Workout' when the header gives none) and a non-empty list
\* of steps; at every depth a RepeatStep has iterations >= 1 and a child, a
\* TimeEndCondition a duration > 0, a DistanceEndCondition a distance > 0
\* and a HeartRateZoneTarget a zone in 1..5; and a cell whose build returns
\* no top-level step gives null.
C26_WorkoutInvariants ==
  /\ (pc = "done" /\ workout.type = "workout") =>
       /\ ValidName(cell_content, workout.name)
       /\ Len(workout.steps) >= 1
       /\ \A k \in 1..Len(workout.steps) : ValidStep(workout.steps[k])
  /\ (pc = "done" /\ b.status = "returned" /\ b.stack[1].steps = <<>>) =>
       workout = NoneValue

\* The cell '- repeat: 4', '  - repeat: 2', '    - run: 400m; jog',
\* '  - recover: 1:30 @z1' gave a Workout with a distance step at depth 2
\* and a time step with a zone target at depth 1.
C26_Witness ==
  /\ pc = "done"
  /\ CellHasLines(<<Raw_repeat0, Raw_repeat1, Raw_run2, Raw_recover1>>)
  /\ workout.type = "workout"
  /\ workout.steps[1].steps[1].steps[1].end_condition.type = "distance"
  /\ workout.steps[1].steps[2].target.type = "hr_zone"

\* A pass of the loop either consumes exactly one line, no call ending, or
\* ends the running call (by returning or raising) at the same index.
PassProgress ==
  (pc = "build" /\ b.status = "running") =>
    \/ /\ b'.i = b.i + 1
       /\ b'.status = "running"
       /\ Len(b'.stack) >= Len(b.stack)
    \/ /\ b'.i = b.i
       /\ b'.status # "running" \/ Len(b'.stack) = Len(b.stack) - 1

\* A recursive call is made for the index after its repeat line's.
CallAfterRepeat ==
  (pc = "build" /\ Len(b'.stack) > Len(b.stack)) =>
    /\ LineAt(parsed_lines, b.i).keyword = Txt_repeat
    /\ Top(b').start_index = b.i + 1

\* Every running call is at or after the index it started from.
AtOrAfterStart ==
  \A d \in 1..Len(b.stack) : b.i >= b.stack[d].start_index

\* While the loop is running it has a next pass, which changes the
\* builder's state.
PassExists ==
  (pc = "build" /\ b.status = "running") =>
    /\ Branch(parsed_lines, b) \in
         {"return", "over_indent", "note", "bad_repeat", "repeat", "step"}
    /\ BuildPass(parsed_lines, b) # b

\* A call with expected_indent 0 returns at the end of the list.
TopReturnsAtEnd ==
  (b.status = "returned" /\ b.stack[1].expected_indent = 0) =>
    b.i = Len(parsed_lines)

\* C27: the builder terminates on every finite list of parsed lines: every
\* pass of the loop ends the running call or advances the index by one
\* line, so that each line is consumed by one pass of one call; a
\* recursive call made for the repeat line at index i starts at i + 1 and
\* returns an index of at least i + 1; and a call with expected_indent 0
\* returns with the index equal to the number of lines.
C27_Terminates ==
  /\ [][PassProgress /\ CallAfterRepeat]_vars
  /\ [](AtOrAfterStart /\ TopReturnsAtEnd /\ PassExists)
  /\ <>(b.status \in {"returned", "raised"})

\* The call for a list of three lines, started at index 0 with
\* expected_indent 0, has returned from a recursive call and then itself,
\* at index 3.
C27_Witness ==
  /\ b.status = "returned"
  /\ b.stack[1].expected_indent = 0
  /\ b.stack[1].start_index = 0
  /\ b.i = 3
  /\ Len(parsed_lines) = 3
  /\ \E k \in 1..Len(b.stack[1].steps) : b.stack[1].steps[k].type = "repeat"

\* The ExecutableSteps of the list depth-first, left to right, each with
\* its nesting depth.
RECURSIVE LeavesOf(_, _)
LeavesOf(steps, depth) ==
  IF steps = <<>> THEN <<>>
  ELSE (IF steps[1].type = "repeat"
        THEN LeavesOf(steps[1].steps, depth + 1)
        ELSE <<[step |-> steps[1], depth |-> depth]>>)
       \o LeavesOf(Tail(steps), depth)

\* The step is the one the line gives, the description apart, and stands
\* at the depth of the line's indent_level.
ComesFrom(leaf, line) ==
  /\ line.indent_level = leaf.depth
  /\ leaf.step.step_type_keyword = line.keyword
  /\ InStepTypeMap(line.keyword)
  /\ leaf.step.step_type = StepTypeOf(line.keyword)
  /\ PairOf(leaf.step.end_condition, leaf.step.target) =
       parse_end_condition_and_target(line.value)

\* The leaves come, in their order, from lines of increasing index, one
\* line giving at most one leaf.
RECURSIVE InLineOrder(_, _)
InLineOrder(leaves, lines) ==
  IF leaves = <<>> THEN TRUE
  ELSE IF lines = <<>> THEN FALSE
  ELSE IF ComesFrom(leaves[1], lines[1])
       THEN InLineOrder(Tail(leaves), Tail(lines))
       ELSE InLineOrder(leaves, Tail(lines))

\* The number of ExecutableSteps held by the running calls together.
RECURSIVE LeavesHeld(_)
LeavesHeld(stack) ==
  IF stack = <<>> THEN 0
  ELSE Len(LeavesOf(stack[1].steps, 0)) + LeavesHeld(Tail(stack))

\* A pass adds at most one ExecutableStep, to the running call, and a
\* return hands every step of the call to one parent or drops none: no
\* step is lost, copied or held twice.
OneParent ==
  (pc = "build" /\ b.status = "running" /\ b'.status # "raised") =>
    IF Branch(parsed_lines, b) = "step"
    THEN LeavesHeld(b'.stack) \in {LeavesHeld(b.stack), LeavesHeld(b.stack) + 1}
    ELSE LeavesHeld(b'.stack) = LeavesHeld(b.stack)

\* C28: the ExecutableSteps of the built tree, listed depth-first and left
\* to right, come from a subsequence of the parsed lines in their order,
\* each line giving at most one step and a step at nesting depth d coming
\* from a line of indent_level d; every step is held by exactly one
\* parent.
C28_OrderedTree ==
  /\ [][OneParent]_vars
  /\ []((pc = "done" /\ workout.type = "workout") =>
          InLineOrder(LeavesOf(workout.steps, 0), parsed_lines))

\* The cell '- repeat: 4', '  - repeat: 2', '    - run: 400m; jog',
\* '- run: 2:00' has been built: a step at depth 2, then one at depth 0.
C28_Witness ==
  /\ pc = "done"
  /\ CellHasLines(<<Raw_repeat0, Raw_repeat1, Raw_run2, Raw_run0>>)
  /\ workout.type = "workout"
  /\ Len(LeavesOf(workout.steps, 0)) = 2
  /\ LeavesOf(workout.steps, 0)[1].depth = 2
  /\ LeavesOf(workout.steps, 0)[2].depth = 0

\* The list of steps with every description cleared, at every depth.
RECURSIVE Undescribed(_)
Undescribed(steps) ==
  [k \in 1..Len(steps) |->
     IF steps[k].type = "repeat"
     THEN [steps[k] EXCEPT !.steps = Undescribed(steps[k].steps)]
     ELSE [steps[k] EXCEPT !.description = None]]

\* The shape of what the running calls have built: everything but the
\* descriptions.
ShapeOfCalls(bb) ==
  [d \in 1..Len(bb.stack) |-> Undescribed(bb.stack[d].steps)]

\* The descriptions of the ExecutableSteps the calls have built, in order.
RECURSIVE DescriptionsOf(_)
DescriptionsOf(stack) ==
  IF stack = <<>> THEN <<>>
  ELSE LET leaves == LeavesOf(stack[1].steps, 0)
       IN  [k \in 1..Len(leaves) |-> leaves[k].step.description]
             \o DescriptionsOf(Tail(stack))

\* The text of a description, None being no text.
TextOf(description) == IF description = None THEN <<>> ELSE description

\* The new description is the old one, or the old one with text added at
\* its end.
ExtendedAtEnd(old, new) ==
  /\ Len(TextOf(new)) >= Len(TextOf(old))
  /\ SubSeq(TextOf(new), 1, Len(TextOf(old))) = TextOf(old)

\* At most one description differs, and it extends the one before.
OneDescriptionExtended(old, new) ==
  /\ Len(old) = Len(new)
  /\ Cardinality({k \in 1..Len(old) : old[k] # new[k]}) <= 1
  /\ \A k \in 1..Len(old) : ExtendedAtEnd(old[k], new[k])

\* The loop reads a note line at its own level.
ReadsNote ==
  /\ pc = "build"
  /\ b.status = "running"
  /\ b.i < Len(parsed_lines)
  /\ LineAt(parsed_lines, b.i).indent_level = Top(b).expected_indent
  /\ LineAt(parsed_lines, b.i).keyword = Txt_note

\* C29: processing a note line changes nothing of the tree but at most
\* one ExecutableStep's description: number, order, nesting, step types,
\* end conditions, targets and iteration counts of the steps built so far
\* stay, and the one description is set or extended at its end, the text
\* already there being kept in front.
C29_NoteFrame ==
  [][ReadsNote =>
       /\ ShapeOfCalls(b') = ShapeOfCalls(b)
       /\ OneDescriptionExtended(DescriptionsOf(b.stack), DescriptionsOf(b'.stack))]_vars

\* The cell '- run: 2:00; jog', '- note: "nice"', '- note: easy',
\* '- run: 2:00' has been built: the first step's description is the ';'
\* note, then the two notes, in this order.
C29_Witness ==
  /\ pc = "done"
  /\ CellHasLines(<<Raw_jog0, Raw_note0, Raw_easy0, Raw_run0>>)
  /\ workout.type = "workout"
  /\ workout.steps[1].description =
       Txt_jog \o <<"\n">> \o Txt_nice \o <<"\n">> \o Txt_easy
  /\ workout.steps[2].description = None

\* No column of the document is named 'WEEK' or 'Week', spaces around the
\* name apart.
NoWeekColumn ==
  \A i \in 1..Len(plan.header) :
    strip(plan.header[i]) \notin {<<"W", "E", "E", "K">>, <<"W", "e", "e", "k">>}

\* Each entry's date is after the date of the entry before it.
DatesIncrease(entries) ==
  \A k \in 1..(Len(entries) - 1) : entries[k].date < entries[k + 1].date

\* The day cells of a row are visited from Monday to Sunday.
MondayToSunday ==
  \A k \in 1..(Len(day_indices) - 1) :
    day_indices[k].day_idx < day_indices[k + 1].day_idx

\* C30: when the document has no week column, the dates of the entries of
\* parse_training_plan are strictly increasing: the day cells of a row are
\* visited Monday to Sunday whatever the order of the day columns, every
\* date of a row is before every date of the next row, and no two entries
\* share a date.
C30_DatesIncrease ==
  NoWeekColumn => MondayToSunday /\ DatesIncrease(result)

\* A document with the columns 'Sunday', 'monday' and two rows of two
\* workouts has been read: Monday and Sunday of week 1, then of week 2.
C30_Witness ==
  /\ pc = "done"
  /\ plan.header = <<<<"S", "u", "n", "d", "a", "y">>, <<"m", "o", "n", "d", "a", "y">>>>
  /\ Len(plan.rows) = 2
  /\ Len(result) = 4
  /\ result[1].date = StartDay
  /\ result[2].date = StartDay + 6
  /\ result[3].date = StartDay + 7
  /\ result[4].date = StartDay + 13

====
